---------------------------- MODULE Spec2Model ----------------------------
(***************************************************************************)
(* A model of lib/polygeist/Passes/ParallelLower.cpp.                      *)
(*                                                                         *)
(* The IR is an arena of operations: ops[id] is one operation, id 1 is the *)
(* module.  An operation owns one region, kept as the ordered list of its  *)
(* children (body); a block ends at a terminator, so a region with several *)
(* terminators among its children is a region of several blocks.  An       *)
(* erased operation stays in the arena with live = FALSE (a tombstone that *)
(* keeps what the operation was) and is detached from its parent.          *)
(* A value is <<"r", id, i>> (result i of operation id), <<"a", id, i>>    *)
(* (argument i of the entry block of id's region) or <<"x", id, i>>        *)
(* (argument i of the exit block the inliner splits off in id's region).   *)
(***************************************************************************)
EXTENDS Integers, Sequences, FiniteSets, TLC

VARIABLES
  ops,          \* the arena: Seq of operation records
  opts,         \* [wrap, mode]: wrapParallelOps, gpuKernelStructureMode
  pc,           \* position of ParallelLower::runOnOperation
  todo,         \* calls the current loop still hands to an inliner
  stack,        \* activation records of callInliner / LLVMcallInliner
  inlineOps,    \* the closure work-list (SmallVector<Operation *>)
  toFollowOps,  \* the follow work-list (SmallVector<Value>)
  toinl,        \* SetVector<FunctionOpInterface>, in insertion order
  cur,          \* index of the function / launch the current loop is at
  toHandle,     \* SmallVector<gpu::LaunchOp>
  follow,       \* the follow loop's locals [op, inlined] while calls run
  threads,      \* the threads that call callMalloc, GetOrCreateFreeFunction
  mallocMutex,  \* callMalloc's static _mutex: its owner, 0 when free
  freeMutex,    \* GetOrCreateFreeFunction's static _mutex, likewise
  errs          \* what has been written to llvm::errs(), in order

vars == <<ops, opts, pc, todo, stack, inlineOps, toFollowOps, toinl, cur,
          toHandle, follow, threads, mallocMutex, freeMutex, errs>>

\* the state of the declaration routines, which the pass leaves alone
DeclState == <<threads, mallocMutex, freeMutex>>

\* the state of the pass, which the declaration routines leave alone
PassState == <<opts, pc, todo, stack, inlineOps, toFollowOps, toinl, cur,
               toHandle, follow, errs>>

ModuleId == 1

----------------------------------------------------------------------------
(* Operations, values, and the arena.                                      *)

\* F applied to the value of e
Let(e, F(_)) == CHOOSE r \in {F(v) : v \in {e}} : TRUE

Res(id, i) == <<"r", id, i>>
BArg(id, i) == <<"a", id, i>>
XArg(id, i) == <<"x", id, i>>

MkOp(k, sym, n, nr, args) ==
  [k |-> k, live |-> TRUE, par |-> 0, sym |-> sym, n |-> n, nr |-> nr,
   args |-> args, body |-> <<>>]

\* a sequence given by its elements, as a tuple
Tup(s) == s \o <<>>

Results(id, nr) == Tup([i \in 1..nr |-> Res(id, i - 1)])

IndexOf(s, x) == CHOOSE i \in 1..Len(s) : s[i] = x

InsAt(s, i, x) == SubSeq(s, 1, i - 1) \o <<x>> \o SubSeq(s, i, Len(s))

Remove(s, x) == SelectSeq(s, LAMBDA y : y # x)

SeqRange(s) == {s[i] : i \in 1..Len(s)}

Last(s) == s[Len(s)]
Front(s) == SubSeq(s, 1, Len(s) - 1)

\* OpBuilder::create with the insertion point before operation ref.
CreateBefore(ar, ref, op) ==
  Let(ar, LAMBDA a :
    [Append(a, [op EXCEPT !.par = a[ref].par])
       EXCEPT ![a[ref].par].body = InsAt(@, IndexOf(@, ref), Len(a) + 1)])

\* OpBuilder::create after setInsertionPointToStart(block of p).
CreateAtStart(ar, p, op) ==
  Let(ar, LAMBDA a :
    [Append(a, [op EXCEPT !.par = p]) EXCEPT ![p].body = <<Len(a) + 1>> \o @])

\* OpBuilder::create after setInsertionPointToEnd(block of p).
CreateAtEnd(ar, p, op) ==
  Let(ar, LAMBDA a :
    [Append(a, [op EXCEPT !.par = p]) EXCEPT ![p].body = Append(@, Len(a) + 1)])

\* Operation::erase of an operation whose region is empty.
Erase(ar, id) ==
  Let(ar, LAMBDA a : [a EXCEPT ![id].live = FALSE, ![a[id].par].body = Remove(@, id)])

\* Value::replaceAllUsesWith, over every operand slot of a live operation.
ReplaceAllUses(ar, from, to) ==
  Let(ar, LAMBDA a :
    Tup([i \in 1..Len(a) |->
           IF a[i].live /\ from \in SeqRange(a[i].args)
           THEN [a[i] EXCEPT !.args = Tup([j \in 1..Len(@) |->
                                             IF @[j] = from THEN to ELSE @[j]])]
           ELSE a[i]]))

RECURSIVE ReplaceEach(_, _, _)
ReplaceEach(ar, froms, tos) ==
  IF froms = <<>> THEN ar
  ELSE Let(ReplaceAllUses(ar, Head(froms), Head(tos)),
           LAMBDA a : ReplaceEach(a, Tail(froms), Tail(tos)))

\* Operation::walk: post-order, the operation itself last.
RECURSIVE Walk(_, _)
RECURSIVE WalkList(_, _)
Walk(ar, id) == WalkList(ar, ar[id].body) \o <<id>>
WalkList(ar, ids) ==
  IF ids = <<>> THEN <<>> ELSE Walk(ar, Head(ids)) \o WalkList(ar, Tail(ids))

WalkKind(ar, root, kinds) == SelectSeq(Walk(ar, root), LAMBDA i : ar[i].k \in kinds)

\* Operation::getParentOfType: the nearest proper ancestor of a kind, 0 if none.
RECURSIVE ParentOfType(_, _, _)
ParentOfType(ar, id, kinds) ==
  LET p == ar[id].par
  IN IF p = 0 THEN 0
     ELSE IF ar[p].k \in kinds THEN p
     ELSE ParentOfType(ar, p, kinds)

\* Operation::isAncestor: a is b or a proper ancestor of b.
RECURSIVE IsAncestor(_, _, _)
IsAncestor(ar, a, b) ==
  IF b = 0 THEN FALSE
  ELSE IF a = b THEN TRUE
  ELSE IsAncestor(ar, a, ar[b].par)

FuncKinds == {"func", "llvmfunc"}
CallKinds == {"call", "lcall"}
\* func.return, cf.br, cf.cond_br, llvm.return, llvm.cond_br
Terminators == {"ret", "br", "cbr", "lret", "lcbr"}

\* the symbols of that name in the module's body, in its order
Symbols(ar, name) ==
  SelectSeq(ar[ModuleId].body, LAMBDA i : ar[i].k \in FuncKinds /\ ar[i].sym = name)

\* SymbolTable::lookup in the module: the first symbol of that name.
Lookup(ar, name) ==
  Let(Symbols(ar, name), LAMBDA hits : IF hits = <<>> THEN 0 ELSE Head(hits))

\* SymbolUserMap::getUsers: the operations that refer to the symbol.
Users(ar, f) ==
  SelectSeq(Walk(ar, ModuleId),
            LAMBDA i : /\ ar[i].k \in CallKinds \cup {"getfunc"}
                       /\ ar[i].sym # ""
                       /\ Lookup(ar, ar[i].sym) = f)
----------------------------------------------------------------------------
(* The modules the pass is run on.  A module is described as nested        *)
(* statements and flattened into the arena.  In a description an operand   *)
(* is <<"p", j, i>> (result i of the j-th statement before this one in the *)
(* same block) or <<"u", l, i>> (entry block argument i of the operation   *)
(* l levels up, 1 being the parent).                                       *)

S(k, sym, n, nr, a, b) == [k |-> k, sym |-> sym, n |-> n, nr |-> nr, a |-> a, b |-> b]

RECURSIVE Up(_, _, _)
Up(ar, id, l) == IF l = 0 THEN id ELSE Up(ar, ar[id].par, l - 1)

ResolveRef(ar, parent, sofar, ref) ==
  IF ref[1] = "p" THEN Res(sofar[Len(sofar) + 1 - ref[2]], ref[3])
  ELSE BArg(Up(ar, parent, ref[2] - 1), ref[3])

\* the operation a statement describes, without its region
StmtOp(ar, parent, sofar, s) ==
  [MkOp(s.k, s.sym, s.n, s.nr,
        Tup([j \in 1..Len(s.a) |-> ResolveRef(ar, parent, sofar, s.a[j])]))
     EXCEPT !.par = parent]

RECURSIVE AddStmts(_, _, _, _)
AddStmts(ar, parent, stmts, sofar) ==
  IF stmts = <<>> THEN [ar EXCEPT ![parent].body = sofar]
  ELSE Let(Head(stmts), LAMBDA s :
       Let(Append(ar, StmtOp(ar, parent, sofar, s)), LAMBDA a1 :
       Let(AddStmts(a1, Len(a1), s.b, <<>>), LAMBDA a2 :
         AddStmts(a2, parent, Tail(stmts), Append(sofar, Len(a1))))))

BuildModule(funcs) ==
  Let(funcs, LAMBDA fs : AddStmts(<<MkOp("module", "", 0, 0, <<>>)>>, ModuleId, fs, <<>>))

\* gpu::Dimension x, y, z
Dims == 0..2
NumDims == 3

Leaf(k, n) == S(k, "", n, 1, <<>>, <<>>)
Ret(a) == S("ret", "", 0, 0, a, <<>>)
LRet(a) == S("lret", "", 0, 0, a, <<>>)
GTerm == S("gterm", "", 0, 0, <<>>, <<>>)
Use(a) == S("use", "", 0, 0, a, <<>>)
Call(f, nr, a) == S("call", f, 0, nr, a, <<>>)
LCall(f, nr, a) == S("lcall", f, 0, nr, a, <<>>)
Launch(sizes, deps, b) == S("launch", "", 0, 0, sizes \o deps, b \o <<GTerm>>)
Func(name, n, nr, b) == S("func", name, n, nr, <<>>, b)
LLVMFunc(name, n, nr, b) == S("llvmfunc", name, n, nr, <<>>, b)

\* the launch's size operands taken from the arguments 0..5 of the enclosing function
ArgSizes(l) == Tup([i \in 1..2 * NumDims |-> <<"u", l, i - 1>>])
\* ... or all six from one constant defined just before the launch
ConstSizes == Tup([i \in 1..2 * NumDims |-> <<"p", 1, 0>>])

\* A kernel that reads every launch coordinate of dimension d, once through
\* the intrinsic operation and once through the body's block argument.
CoordKernel(d) ==
  << Leaf("bid", d), Leaf("tid", d), Leaf("gdim", d), Leaf("bdim", d),
     S("barrier0", "", 0, 0, <<>>, <<>>),
     Use(<< <<"p", 5, 0>>, <<"p", 4, 0>>, <<"p", 3, 0>>, <<"p", 2, 0>> >>),
     Use(<< <<"u", 1, d>>, <<"u", 1, NumDims + d>>, <<"u", 1, 2 * NumDims + d>>,
            <<"u", 1, 3 * NumDims + d>> >>) >>

MaxDeps == 2

\* main(gx, gy, gz, bx, by, bz, stream) with nd asynchronous dependencies
LowerModule(d, nd) ==
  BuildModule(<<
    Func("main", 2 * NumDims + 1, 0,
         [i \in 1..nd |-> S("s2t", "", 0, 1, << <<"u", 1, 2 * NumDims>> >>, <<>>)]
         \o << Launch(ArgSizes(1), [i \in 1..nd |-> <<"p", nd + 1 - i, 0>>], CoordKernel(d)),
               Ret(<<>>) >>) >>)

\* what defines an asynchronous dependency: a polygeist.stream2token, an
\* operation that yields an async token itself, an argument of the function
DepSources == {"s2t", "token", "arg"}

\* main(gx, gy, gz, bx, by, bz, t) with a launch whose dependencies are
\* defined as srcs says, in that order
DepsModule(srcs) ==
  BuildModule(<<
    Func("main", 2 * NumDims + 1, 0,
         [i \in 1..Len(srcs) |->
            IF srcs[i] = "s2t" THEN S("s2t", "", 0, 1, << <<"u", 1, 2 * NumDims>> >>, <<>>)
            ELSE S("token", "", i, 1, <<>>, <<>>)]
         \o << Launch(ArgSizes(1),
                      [i \in 1..Len(srcs) |->
                         IF srcs[i] = "arg" THEN <<"u", 1, 2 * NumDims>>
                         ELSE <<"p", Len(srcs) + 1 - i, 0>>],
                      CoordKernel(0)),
               Ret(<<>>) >>) >>)

DepsModules == {DepsModule(srcs) : srcs \in UNION {[1..n -> DepSources] : n \in 1..MaxDeps}}

MaxResults == 2

\* main launches a kernel that holds a memref.alloca in memory space sp, an
\* llvm.alloca in address space lsp whose array size is a constant of the
\* kernel, an affine.store and an affine.load through a map of k results
\* (args: [value,] memref, map operands), and a user of the three results.
MemModule(sp, lsp, k) ==
  BuildModule(<<
    Func("main", 2 * NumDims + 1, 0,
         << Launch(ArgSizes(1), <<>>,
              << Leaf("const", 1),
                 S("alloca", "", sp, 1, <<>>, <<>>),
                 S("lalloca", "", lsp, 1, << <<"p", 2, 0>> >>, <<>>),
                 Leaf("tid", 0),
                 S("astore", "map", k, 0,
                   << <<"p", 1, 0>>, <<"p", 3, 0>>, <<"p", 1, 0>>, <<"u", 1, 0>> >>, <<>>),
                 S("aload", "map", k, 1, << <<"p", 4, 0>>, <<"p", 2, 0>> >>, <<>>),
                 Use(<< <<"p", 1, 0>>, <<"p", 4, 0>>, <<"p", 5, 0>> >>) >>),
            Ret(<<>>) >>) >>)

Modes == {"Discard", "BlockThreadWrappers", "BlockThreadNoops", "ThreadNoop"}

\* Call graphs: main launches a kernel; f is a func.func and g a func.func
\* or an llvm.func (gk), both with bodies of one block or of two exits; e is
\* an external declaration.  A func.func is called by func.call and an
\* llvm.func by llvm.call.
CallG(gk) == IF gk = "func" THEN Call("g", 0, <<>>) ELSE LCall("g", 0, <<>>)

GSlots ==
  { <<>>,
    << Leaf("tid", 0) >>,
    << Leaf("bid", 0) >>,
    << Leaf("bdim", 0) >>,
    << S("barrier0", "", 0, 0, <<>>, <<>>) >>,
    << Leaf("const", 1), Launch(ConstSizes, <<>>, << Leaf("tid", 0) >>) >> }

FSlots(gk) ==
  { <<>>,
    << CallG(gk) >>,
    << Leaf("gdim", 1) >>,
    << Leaf("const", 1), Launch(ConstSizes, <<>>, << CallG(gk) >>) >> }

KSlots(gk) ==
  { <<>>,
    << Call("f", 1, <<>>), Use(<< <<"p", 1, 0>> >>) >>,
    << CallG(gk) >>,
    << Call("e", 0, << <<"u", 1, 0>> >>) >>,
    << Launch(ArgSizes(1), <<>>, << Leaf("tid", 1) >>) >> }

\* polygeist.get_func of a func.func, handed to a call or called
GetFuncSlots ==
  { << S("getfunc", "g", 0, 1, <<>>, <<>>), Call("e", 0, << <<"p", 1, 0>> >>) >>,
    << S("getfunc", "g", 0, 1, <<>>, <<>>), LCall("", 0, << <<"p", 1, 0>> >>) >> }

MSlots(gk) ==
  { <<>>,
    << Call("f", 1, <<>>), Use(<< <<"p", 1, 0>> >>) >>,
    << CallG(gk) >> }
  \cup (IF gk = "func" THEN GetFuncSlots ELSE {})

FBody(fs, two) ==
  fs \o << Leaf("const", 7) >>
     \o (IF two THEN << S("cbr", "", 0, 0, <<>>, <<>>), Ret(<< <<"p", 2, 0>> >>),
                        Ret(<< <<"p", 3, 0>> >>) >>
         ELSE << Ret(<< <<"p", 1, 0>> >>) >>)

GFunc(gk, gs, two) ==
  IF gk = "func"
  THEN Func("g", 0, 0, gs \o (IF two THEN << S("cbr", "", 0, 0, <<>>, <<>>), Ret(<<>>),
                                             Ret(<<>>) >>
                              ELSE << Ret(<<>>) >>))
  ELSE LLVMFunc("g", 0, 0, gs \o (IF two THEN << S("lcbr", "", 0, 0, <<>>, <<>>),
                                                 LRet(<<>>), LRet(<<>>) >>
                                  ELSE << LRet(<<>>) >>))

GraphFuncs(ms, ks, fs, gs, gk, two, gtwo) ==
  << Func("main", 2 * NumDims + 1, 0, ms \o << Launch(ArgSizes(1), <<>>, ks), Ret(<<>>) >>),
     Func("f", 0, 1, FBody(fs, two)),
     GFunc(gk, gs, gtwo),
     Func("e", 1, 0, <<>>) >>

Reverse(s) == Tup([i \in 1..Len(s) |-> s[Len(s) + 1 - i]])

GraphsOf(gk) ==
  { BuildModule(IF rev THEN Reverse(GraphFuncs(ms, ks, fs, gs, gk, two, gtwo))
                ELSE GraphFuncs(ms, ks, fs, gs, gk, two, gtwo)) :
      ms \in MSlots(gk), ks \in KSlots(gk), fs \in FSlots(gk), gs \in GSlots,
      two \in BOOLEAN, gtwo \in BOOLEAN, rev \in BOOLEAN }

GraphModules == GraphsOf("func") \cup GraphsOf("llvmfunc")

\* a variadic llvm.func g with a body, called with one operand more than
\* its region has arguments, which the verifier of llvm.call accepts; the
\* call stands before the launch, in the kernel, or in a function f that
\* the kernel calls
Sites == {"host", "kernel", "callee"}

VariadicModule(gs, at) ==
  LET site == << Leaf("const", 1), LCall("g", 1, << <<"p", 1, 0>> >>),
                 Use(<< <<"p", 1, 0>> >>) >>
  IN BuildModule(
       << Func("main", 2 * NumDims + 1, 0,
               (IF at = "host" THEN site ELSE <<>>)
                 \o << Launch(ArgSizes(1), <<>>,
                              IF at = "kernel" THEN site
                              ELSE IF at = "callee" THEN << Call("f", 0, <<>>) >>
                              ELSE <<>>),
                       Ret(<<>>) >>) >>
       \o (IF at = "callee" THEN << Func("f", 0, 0, site \o << Ret(<<>>) >>) >> ELSE <<>>)
       \o << LLVMFunc("g", 0, 1, gs \o << Leaf("const", 7), LRet(<< <<"p", 1, 0>> >>) >>) >>)

VariadicModules == {VariadicModule(gs, at) : gs \in GSlots, at \in Sites}

\* a kernel that calls h, a name that no function of the module bears: no
\* symbol at all, or the symbol of a global
UnresolvedModule(ck, glob) ==
  BuildModule(
    << Func("main", 2 * NumDims + 1, 0,
            << Launch(ArgSizes(1), <<>>,
                      << S(ck, "h", 0, 1, <<>>, <<>>), Use(<< <<"p", 1, 0>> >>) >>),
               Ret(<<>>) >>) >>
    \o (IF glob THEN << S("global", "h", 0, 0, <<>>, <<>>) >> ELSE <<>>))

UnresolvedModules == {UnresolvedModule(ck, glob) : ck \in CallKinds, glob \in BOOLEAN}

\* a kernel that calls f, and f calls itself, at once or through g; with
\* seed, f holds a thread-index intrinsic; f and g are functions of kind gk
RecursiveModule(seed, through, gk) ==
  LET call(name) == IF gk = "func" THEN Call(name, 0, <<>>) ELSE LCall(name, 0, <<>>)
      fn(name, b) == IF gk = "func" THEN Func(name, 0, 0, b \o << Ret(<<>>) >>)
                     ELSE LLVMFunc(name, 0, 0, b \o << LRet(<<>>) >>)
  IN BuildModule(
       << Func("main", 2 * NumDims + 1, 0,
               << Launch(ArgSizes(1), <<>>, << call("f") >>), Ret(<<>>) >>),
          fn("f", (IF seed THEN << Leaf("tid", 0) >> ELSE <<>>)
                    \o << call(IF through THEN "g" ELSE "f") >>) >>
       \o (IF through THEN << fn("g", << call("f") >>) >> ELSE <<>>))

RecursiveModules ==
  {RecursiveModule(seed, through, gk) : seed \in BOOLEAN, through \in BOOLEAN,
                                        gk \in FuncKinds}

DefaultOpts == [wrap |-> FALSE, mode |-> "Discard"]

NoFollow == [op |-> <<>>, inlined |-> FALSE]

\* no thread is in a declaration routine
NoThreads == <<>>

Init ==
  /\ \/ /\ ops \in {LowerModule(d, nd) : d \in Dims, nd \in 0..MaxDeps}
                    \cup {MemModule(sp, lsp, k) : sp \in {0, 5}, lsp \in {0, 5},
                                                 k \in 0..MaxResults}
        /\ opts \in [wrap : BOOLEAN, mode : Modes]
     \/ /\ ops \in GraphModules \cup VariadicModules \cup UnresolvedModules \cup DepsModules
                    \cup RecursiveModules
        /\ opts = DefaultOpts
  /\ pc = "dims"
  /\ todo = <<>>
  /\ stack = <<>>
  /\ inlineOps = <<>>
  /\ toFollowOps = <<>>
  /\ toinl = <<>>
  /\ cur = 0
  /\ toHandle = <<>>
  /\ follow = NoFollow
  /\ threads = NoThreads
  /\ mallocMutex = 0
  /\ freeMutex = 0
  /\ errs = <<>>

----------------------------------------------------------------------------
(* callInliner and LLVMcallInliner.  The two lambdas have the same code;   *)
(* which one runs is decided by the kind of the call (func.call: "call",   *)
(* llvm.call: "lcall").  One activation is a record of the stack.          *)

Frame(c) == [call |-> c, st |-> "enter", callee |-> 0, pend |-> <<>>]
Top == stack[Len(stack)]
SetTop(f) == [stack EXCEPT ![Len(stack)] = f]

Idle == stack = <<>> /\ todo = <<>>

\* the activations the call stack has room for
MaxDepth == 4

\* What getCallableForCallee and the symbol lookup give for a call:
\* "value" (no callee attribute: the callable is an SSA value), "null" (the
\* symbol does not resolve to a callable), "external" (no callable region),
\* "ok".
Resolve(ar, c) ==
  IF ar[c].sym = "" THEN "value"
  ELSE IF Lookup(ar, ar[c].sym) = 0 THEN "null"
  ELSE IF ar[Lookup(ar, ar[c].sym)].body = <<>> THEN "external"
  ELSE "ok"

\* mlir::inlineCall rejects a call whose operands or results do not match
\* the callable region's signature; the interface's legality hooks accept.
InlineLegal(ar, c, f) == Len(ar[c].args) = ar[f].n /\ ar[c].nr = ar[f].nr

NumBlocks(ar, f) == Len(SelectSeq(ar[f].body, LAMBDA i : ar[i].k \in Terminators))

\* the copy of operation old of callee f, the operations D of f's region
\* being copied to base + 1, base + 2, ... in the region of x
Clone(ar, c, f, x, D, base, old) ==
  [ar[old] EXCEPT
     !.par = IF @ = f THEN x ELSE base + IndexOf(D, @),
     !.body = Tup([j \in 1..Len(@) |-> base + IndexOf(D, @[j])]),
     !.args = Tup([j \in 1..Len(@) |->
                 IF @[j][1] = "a" /\ @[j][2] = f THEN ar[c].args[@[j][3] + 1]
                 ELSE IF @[j][2] \in SeqRange(D)
                 THEN <<@[j][1], base + IndexOf(D, @[j][2]), @[j][3]>>
                 ELSE @[j]]),
     \* handleTerminator(op, newDest), lines 161-171: only func.return
     !.k = IF @ = "ret" /\ NumBlocks(ar, f) > 1 THEN "br" ELSE @,
     \* the terminator of a single inlined block is erased
     !.live = ~(NumBlocks(ar, f) = 1 /\ old = Last(ar[f].body))]

\* mlir::inlineCall, shouldCloneInlinedRegion = true: the callee's region is
\* cloned after the call, in the block of execute-region x that holds it.
\* A single-block region has its terminator removed and the call's results
\* replaced by the terminator's operands (handleTerminator(op, valuesToRepl),
\* lines 175-184); in a region of several blocks each func.return becomes a
\* branch to the block split off after the call, whose arguments replace the
\* call's results, and any other terminator is left as it is (lines 163-165).
InlineRegion(ar, c, f, x) ==
  Let(WalkList(ar, ar[f].body), LAMBDA D :
  Let(ar \o [j \in 1..Len(D) |-> Clone(ar, c, f, x, D, Len(ar), D[j])], LAMBDA a1 :
  Let(SelectSeq(ar[f].body, LAMBDA i : a1[Len(ar) + IndexOf(D, i)].live), LAMBDA kept :
  Let([a1 EXCEPT ![x].body = <<c>> \o [j \in 1..Len(kept) |-> Len(ar) + IndexOf(D, kept[j])]
                                   \o Tail(@)], LAMBDA a2 :
    IF NumBlocks(ar, f) = 1
    THEN ReplaceEach(a2, Results(c, ar[c].nr), a1[Len(ar) + IndexOf(D, Last(ar[f].body))].args)
    ELSE ReplaceEach(a2, Results(c, ar[c].nr),
                     Tup([i \in 1..ar[c].nr |-> XArg(x, i - 1)]))))))

\* lines 295-299 (349-353)
InlineCall(ar, c, f, x) ==
  IF InlineLegal(ar, c, f)
  THEN Let(InlineRegion(ar, c, f, x), LAMBDA a : Erase(a, c))
  ELSE ar

\* the wrapping without line 292 (346): the uses of the call's results are
\* left reading the call
WrapKeepingUses(ar, c, f) ==
  Let(CreateBefore(ar, c, MkOp("ascope", "", 0, ar[c].nr, <<>>)), LAMBDA a1 :
  Let(CreateAtStart(a1, Len(a1), MkOp("exreg", "", 0, ar[c].nr, <<>>)), LAMBDA a2 :
  Let([a2 EXCEPT ![a2[c].par].body = Remove(@, c), ![c].par = Len(a2),
                 ![Len(a2)].body = <<c>>], LAMBDA a3 :
  Let(CreateAtEnd(a3, Len(a2), MkOp("yield", "", 0, 0, Results(c, ar[c].nr))), LAMBDA a5 :
  Let(InlineCall(a5, c, f, Len(a2)), LAMBDA a6 :
    CreateAtEnd(a6, Len(a1), MkOp("ascope_ret", "", 0, 0, Results(Len(a2), ar[c].nr))))))))

\* Lines 282-302 (336-356): the allocation scope s, the execute region x,
\* the call moved into it, the yield, the inlining, the scope's return.
WrapAndInline(ar, c, f) ==
  Let(CreateBefore(ar, c, MkOp("ascope", "", 0, ar[c].nr, <<>>)), LAMBDA a1 :
  Let(CreateAtStart(a1, Len(a1), MkOp("exreg", "", 0, ar[c].nr, <<>>)), LAMBDA a2 :
  Let([a2 EXCEPT ![a2[c].par].body = Remove(@, c), ![c].par = Len(a2),
                 ![Len(a2)].body = <<c>>], LAMBDA a3 :
  Let(ReplaceEach(a3, Results(c, ar[c].nr), Results(Len(a1), ar[c].nr)), LAMBDA a4 :
  Let(CreateAtEnd(a4, Len(a2), MkOp("yield", "", 0, 0, Results(c, ar[c].nr))), LAMBDA a5 :
  Let(InlineCall(a5, c, f, Len(a2)), LAMBDA a6 :
    CreateAtEnd(a6, Len(a1), MkOp("ascope_ret", "", 0, 0, Results(Len(a2), ar[c].nr)))))))))

\* for (auto op : ...) callInliner(op) / LLVMcallInliner(op): the next call
StartInline ==
  /\ stack = <<>> /\ todo # <<>> /\ pc # "crashed"
  /\ stack' = <<Frame(Head(todo))>>
  /\ todo' = Tail(todo)
  /\ UNCHANGED <<ops, opts, pc, inlineOps, toFollowOps, toinl, cur, toHandle, follow, DeclState, errs>>

\* lines 254-269 (308-323), and the first walk of the callee.  When the
\* symbol resolves to no callable, callableOp is null and line 265 (319)
\* calls getCallableRegion through it: undefined behaviour, which is a
\* crash or a read that yields no region
InlEnter ==
  /\ stack # <<>> /\ Top.st = "enter" /\ pc # "crashed"
  /\ \E r \in {Resolve(ops, Top.call)} :
       \/ /\ r = "ok"
          /\ stack' = SetTop([Top EXCEPT
                                !.st = "calls",
                                !.callee = Lookup(ops, ops[Top.call].sym),
                                !.pend = WalkKind(ops, Lookup(ops, ops[Top.call].sym),
                                                  {"call"})])
          /\ pc' = pc
       \/ /\ r \in {"value", "external", "null"}
          /\ stack' = Front(stack)
          /\ pc' = pc
       \/ /\ r = "null"
          /\ stack' = stack
          /\ pc' = "crashed"
  /\ UNCHANGED <<ops, todo, opts, inlineOps, toFollowOps, toinl, cur, toHandle, follow, DeclState, errs>>

\* an inliner that leaves the func.calls of the callee alone: not what lines
\* 270-275 do
InlSkipNestedCalls ==
  /\ stack # <<>> /\ Top.st = "calls" /\ pc # "crashed"
  /\ stack' = SetTop([Top EXCEPT !.st = "lcalls",
                                 !.pend = WalkKind(ops, Top.callee, {"lcall"})])
  /\ UNCHANGED <<ops, todo, opts, pc, inlineOps, toFollowOps, toinl, cur, toHandle, follow, DeclState, errs>>

\* lines 270-275 (324-329): callInliner on every func.call of the callee
InlNestedCalls ==
  /\ stack # <<>> /\ Top.st = "calls" /\ pc # "crashed"
  /\ Top.pend # <<>> => Len(stack) < MaxDepth
  /\ stack' = IF Top.pend # <<>>
              THEN Append(SetTop([Top EXCEPT !.pend = Tail(@)]), Frame(Head(Top.pend)))
              ELSE SetTop([Top EXCEPT !.st = "lcalls",
                                      !.pend = WalkKind(ops, Top.callee, {"lcall"})])
  /\ UNCHANGED <<ops, todo, opts, pc, inlineOps, toFollowOps, toinl, cur, toHandle, follow, DeclState, errs>>

\* lines 276-281 (330-335): LLVMcallInliner on every llvm.call of the callee
InlNestedLLVMCalls ==
  /\ stack # <<>> /\ Top.st = "lcalls" /\ pc # "crashed"
  /\ Top.pend # <<>> => Len(stack) < MaxDepth
  /\ stack' = IF Top.pend # <<>>
              THEN Append(SetTop([Top EXCEPT !.pend = Tail(@)]), Frame(Head(Top.pend)))
              ELSE SetTop([Top EXCEPT !.st = "wrap"])
  /\ UNCHANGED <<ops, todo, opts, pc, inlineOps, toFollowOps, toinl, cur, toHandle, follow, DeclState, errs>>

\* lines 273-274, 279-280 (327-328, 333-334): the recursion has used up
\* the call stack
InlOverflow ==
  /\ stack # <<>> /\ Top.st \in {"calls", "lcalls"} /\ pc # "crashed"
  /\ Top.pend # <<>> /\ Len(stack) >= MaxDepth
  /\ pc' = "crashed"
  /\ UNCHANGED <<ops, todo, opts, stack, inlineOps, toFollowOps, toinl, cur, toHandle, follow, DeclState, errs>>

\* lines 282-302 (336-356)
InlWrap ==
  /\ stack # <<>> /\ Top.st = "wrap" /\ pc # "crashed"
  /\ ops' = WrapAndInline(ops, Top.call, Top.callee)
  /\ stack' = Front(stack)
  /\ UNCHANGED <<todo, opts, pc, inlineOps, toFollowOps, toinl, cur, toHandle, follow, DeclState, errs>>

\* line 178: handleTerminator(op, valuesToRepl) casts the terminator of a
\* single inlined block to func::ReturnOp; on any other terminator the cast
\* asserts, and the pass aborts in a build with assertions (in a build
\* without them InlWrap goes on, reading the terminator's operands)
CastAsserts(ar, c, f) ==
  InlineLegal(ar, c, f) /\ NumBlocks(ar, f) = 1 /\ ar[Last(ar[f].body)].k # "ret"

InlAbort ==
  /\ stack # <<>> /\ Top.st = "wrap" /\ pc # "crashed"
  /\ CastAsserts(ops, Top.call, Top.callee)
  /\ pc' = "crashed"
  /\ UNCHANGED <<ops, todo, opts, stack, inlineOps, toFollowOps, toinl, cur, toHandle, follow, DeclState, errs>>

----------------------------------------------------------------------------
(* ParallelLower::runOnOperation, lines 359-455: the inlining closure.     *)

DimCtors == {"_ZN4dim3C1EOS_", "_ZN4dim3C1Ejjj"}

\* lines 359-368
CollectDims ==
  /\ pc = "dims"
  /\ todo' = SelectSeq(WalkKind(ops, ModuleId, {"call"}), LAMBDA i : ops[i].sym \in DimCtors)
  /\ pc' = "seed"
  /\ UNCHANGED <<ops, opts, stack, inlineOps, toFollowOps, toinl, cur, toHandle, follow, DeclState, errs>>

\* the intrinsics whose uses seed the work-list, in the order of the walks
\* the walks without the one of lines 378-379
SeedsButGridDim == <<"tid", "tid", "barrier0">>

SeedKinds == <<"tid", "gdim", "barrier0">>

SeedOps(ar) ==
  WalkKind(ar, ModuleId, {SeedKinds[1]}) \o WalkKind(ar, ModuleId, {SeedKinds[2]})
    \o WalkKind(ar, ModuleId, {SeedKinds[3]})

\* lines 376-383
Seed ==
  /\ pc = "seed" /\ Idle
  /\ inlineOps' = SeedOps(ops)
  /\ pc' = "closure"
  /\ UNCHANGED <<ops, opts, todo, stack, toFollowOps, toinl, cur, toHandle, follow, DeclState, errs>>

\* a test that lets every function through: not that of line 389
InlineAlways(ar, lop, fop) == TRUE

\* the test of line 389 with its first part turned round
InlineInLaunch(ar, lop, fop) == lop # 0 \/ IsAncestor(ar, lop, fop)

\* the test of line 389
MustInline(ar, lop, fop) == lop = 0 \/ IsAncestor(ar, lop, fop)

SetInsert(s, x) == IF x \in SeqRange(s) THEN s ELSE Append(s, x)

\* the results of the get_func operations among us
GetFuncResults(ar, us) ==
  Let(SelectSeq(us, LAMBDA m : ar[m].k = "getfunc"),
      LAMBDA gs : [j \in 1..Len(gs) |-> Res(gs[j], 0)])

\* the operations the work-list has room for
MaxWork == 6

\* lines 384-399, one iteration
ClosureStep ==
  /\ pc = "closure" /\ inlineOps # <<>>
  /\ \E lop \in {ParentOfType(ops, Last(inlineOps), {"launch"})} :
     \E fop \in {ParentOfType(ops, Last(inlineOps), FuncKinds)} :
       IF MustInline(ops, lop, fop)
       THEN \E us \in {Users(ops, fop)} :
              /\ toinl' = SetInsert(toinl, fop)
              /\ inlineOps' = Front(inlineOps)
                                \o SelectSeq(us, LAMBDA m : ops[m].k \in CallKinds)
              /\ toFollowOps' = toFollowOps \o GetFuncResults(ops, us)
       ELSE /\ inlineOps' = Front(inlineOps)
            /\ UNCHANGED <<toinl, toFollowOps>>
  /\ Len(inlineOps') <= MaxWork
  /\ UNCHANGED <<ops, opts, pc, todo, stack, cur, toHandle, follow, DeclState, errs>>

\* lines 391-393: the work-list has grown beyond what memory holds
ClosureOverflow ==
  /\ pc = "closure" /\ inlineOps # <<>>
  /\ \E lop \in {ParentOfType(ops, Last(inlineOps), {"launch"})} :
     \E fop \in {ParentOfType(ops, Last(inlineOps), FuncKinds)} :
       /\ MustInline(ops, lop, fop)
       /\ Len(inlineOps) - 1
            + Len(SelectSeq(Users(ops, fop), LAMBDA m : ops[m].k \in CallKinds)) > MaxWork
  /\ pc' = "crashed"
  /\ UNCHANGED <<ops, opts, todo, stack, inlineOps, toFollowOps, toinl, cur, toHandle, follow, DeclState, errs>>

ClosureDone ==
  /\ pc = "closure" /\ inlineOps = <<>>
  /\ pc' = "apply"
  /\ cur' = 1
  /\ UNCHANGED <<ops, opts, todo, stack, inlineOps, toFollowOps, toinl, toHandle, follow, DeclState, errs>>

\* a loop that hands only the llvm.call users to an inliner: not what lines
\* 409-415 do
ApplyOnlyLLVMCalls ==
  /\ pc = "apply" /\ Idle /\ cur <= Len(toinl)
  /\ todo' = SelectSeq(Users(ops, toinl[cur]), LAMBDA m : ops[m].k = "lcall")
  /\ cur' = cur + 1
  /\ UNCHANGED <<ops, opts, pc, stack, inlineOps, toFollowOps, toinl, toHandle, follow, DeclState, errs>>

\* lines 400-416, one function of toinl: its llvm.call users, then its
\* func.call users
ApplyNext ==
  /\ pc = "apply" /\ Idle /\ cur <= Len(toinl)
  /\ \E us \in {Users(ops, toinl[cur])} :
       todo' = SelectSeq(us, LAMBDA m : ops[m].k = "lcall")
                 \o SelectSeq(us, LAMBDA m : ops[m].k = "call")
  /\ cur' = cur + 1
  /\ UNCHANGED <<ops, opts, pc, stack, inlineOps, toFollowOps, toinl, toHandle, follow, DeclState, errs>>

ApplyDone ==
  /\ pc = "apply" /\ Idle /\ cur > Len(toinl)
  /\ pc' = "follow"
  /\ UNCHANGED <<ops, opts, todo, stack, inlineOps, toFollowOps, toinl, cur, toHandle, follow, DeclState, errs>>

\* Value::getUsers: the use list, most recent use first; uses are taken to
\* have been created in program order.
ValueUsers(ar, v) ==
  Reverse(SelectSeq(Walk(ar, ModuleId),
                    LAMBDA i : ar[i].live /\ v \in SeqRange(ar[i].args)))

\* fixupGetFunc (declared at line 239, defined outside this file): an
\* indirect llvm.call whose callee operand is the result of a get_func is
\* rewritten to a direct call of the function, created before it.
FixupSucceeds(ar, cop) ==
  ar[cop].args[1][1] = "r" /\ ar[ar[cop].args[1][2]].k = "getfunc"

FixupGetFunc(ar, cop) ==
  CreateBefore(ar, cop, MkOp("call", ar[ar[cop].args[1][2]].sym, 0, ar[cop].nr,
                              Tail(ar[cop].args)))

\* lines 426-433: the call replaced by what fixupGetFunc built
Fixup(ar, u) ==
  Let(FixupGetFunc(ar, u), LAMBDA a1 :
  Let(ReplaceEach(a1, Results(u, ar[u].nr), Results(Len(a1), ar[u].nr)), LAMBDA a2 :
    Erase(a2, u)))

\* lines 423-443: the loop over the users of op, up to its break; acc is
\* [ar, lt, mt, tf, inlined]: the arena, ltoinl, mtoinl, what is pushed on
\* toFollowOps, and inlined
RECURSIVE ScanUsers(_, _, _)
ScanUsers(v, us, acc) ==
  IF us = <<>> THEN acc
  ELSE Let(acc, LAMBDA r :
       Let(Head(us), LAMBDA u :
       Let(Tail(us), LAMBDA rest :
         IF r.ar[u].k = "lcall"
         THEN IF r.ar[u].sym = "" /\ r.ar[u].args[1] = v
              THEN IF FixupSucceeds(r.ar, u)
                   THEN [r EXCEPT !.ar = Fixup(@, u), !.inlined = TRUE]
                   ELSE ScanUsers(v, rest, r)
              ELSE IF r.ar[u].sym # ""
              THEN ScanUsers(v, rest, [r EXCEPT !.lt = Append(@, u)])
              ELSE ScanUsers(v, rest, r)
         ELSE IF r.ar[u].k = "call"
         THEN ScanUsers(v, rest, [r EXCEPT !.mt = Append(@, u)])
         ELSE ScanUsers(v, rest, [r EXCEPT !.tf = @ \o Results(u, r.ar[u].nr)]))))

\* lines 417-443: pop a value, scan its users
FollowStep ==
  /\ pc = "follow" /\ Idle /\ follow.op = <<>> /\ toFollowOps # <<>>
  /\ \E v \in {Last(toFollowOps)} :
     \E r \in {ScanUsers(v, ValueUsers(ops, v),
                         [ar |-> ops, lt |-> <<>>, mt |-> <<>>, tf |-> <<>>,
                          inlined |-> FALSE])} :
       /\ ops' = r.ar
       /\ toFollowOps' = Front(toFollowOps) \o r.tf
       /\ todo' = r.lt \o r.mt
       \* lines 444-451 set inlined for every call handed to an inliner
       /\ follow' = [op |-> v, inlined |-> r.inlined \/ r.lt # <<>> \/ r.mt # <<>>]
  /\ UNCHANGED <<opts, pc, stack, inlineOps, toinl, cur, toHandle, DeclState, errs>>

\* lines 452-453
FollowEnd ==
  /\ pc = "follow" /\ Idle /\ follow.op # <<>>
  /\ toFollowOps' = IF follow.inlined THEN Append(toFollowOps, follow.op) ELSE toFollowOps
  /\ follow' = NoFollow
  /\ UNCHANGED <<ops, opts, pc, todo, stack, inlineOps, toinl, cur, toHandle, DeclState, errs>>

FollowDone ==
  /\ pc = "follow" /\ Idle /\ follow.op = <<>> /\ toFollowOps = <<>>
  /\ pc' = "collect"
  /\ UNCHANGED <<ops, opts, todo, stack, inlineOps, toFollowOps, toinl, cur, toHandle, follow, DeclState, errs>>

----------------------------------------------------------------------------
(* ParallelLower::runOnOperation, lines 459-697: the launches.             *)

\* lines 459-461
CollectLaunches ==
  /\ pc = "collect"
  /\ toHandle' = WalkKind(ops, ModuleId, {"launch"})
  /\ cur' = 1
  /\ pc' = "launch"
  /\ UNCHANGED <<ops, opts, todo, stack, inlineOps, toFollowOps, toinl, follow, DeclState, errs>>

\* lines 463-468: callInliner on every func.call in the launch
LaunchCalls ==
  /\ pc = "launch" /\ cur <= Len(toHandle)
  /\ todo' = WalkKind(ops, toHandle[cur], {"call"})
  /\ pc' = "launchL"
  /\ UNCHANGED <<ops, opts, stack, inlineOps, toFollowOps, toinl, cur, toHandle, follow, DeclState, errs>>

\* lines 469-474: LLVMcallInliner on every llvm.call in the launch
LaunchLLVMCalls ==
  /\ pc = "launchL" /\ Idle
  /\ todo' = WalkKind(ops, toHandle[cur], {"lcall"})
  /\ pc' = "lower"
  /\ UNCHANGED <<ops, opts, stack, inlineOps, toFollowOps, toinl, cur, toHandle, follow, DeclState, errs>>

\* an operation with a one-block region that ends in terminator term,
\* created before ref: the terminator is the last operation of the result,
\* the operation the one before it
CreateRegionOp(ar, ref, op, term) ==
  Let(CreateBefore(ar, ref, op), LAMBDA a :
    CreateAtEnd(a, Len(a), MkOp(term, "", 0, 0, <<>>)))

GridSizes(ar, l) == SubSeq(ar[l].args, 1, NumDims)
BlockSizes(ar, l) == SubSeq(ar[l].args, NumDims + 1, 2 * NumDims)
AsyncDeps(ar, l) == SubSeq(ar[l].args, 2 * NumDims + 1, Len(ar[l].args))

\* the induction variables of a parallel loop: its body's block arguments
IVs(p) == Tup([i \in 1..NumDims |-> BArg(p, i - 1)])

\* scf.parallel operands: lower bounds, upper bounds, steps
ParallelOp(lb, ub, step) == MkOp("par", "", 0, 0, lb \o ub \o step)

\* a thread loop that runs over the grid sizes: not what line 532 builds
ThreadLoopOverGrid(ar, l, zindex, oneindex) ==
  ParallelOp(<<zindex, zindex, zindex>>, GridSizes(ar, l), <<oneindex, oneindex, oneindex>>)

\* lines 509-513 and 530-534
BlockLoop(ar, l, zindex, oneindex) ==
  ParallelOp(<<zindex, zindex, zindex>>, GridSizes(ar, l), <<oneindex, oneindex, oneindex>>)
ThreadLoop(ar, l, zindex, oneindex) ==
  ParallelOp(<<zindex, zindex, zindex>>, BlockSizes(ar, l), <<oneindex, oneindex, oneindex>>)

\* line 488: getDefiningOp<polygeist::StreamToTokenOp>() of a dependency
IsStreamToken(ar, v) == v[1] = "r" /\ ar[v[2]].k = "s2t"

\* lines 486-492: one polygeist.stream2token per dependency, before the launch
RECURSIVE ConvertDeps(_, _, _)
ConvertDeps(ar, l, deps) ==
  IF deps = <<>> THEN ar
  ELSE Let(CreateBefore(ar, l, MkOp("s2t", "", 0, 1, ar[Head(deps)[2]].args)),
           LAMBDA a : ConvertDeps(a, l, Tail(deps)))

\* a thread index read from the block loop: not what line 629 does
ThreadIdFromBlockLoop(cx, d) == BArg(cx.block, d)

\* what the rewrites of lines 578-661 put in place of an intrinsic
BlockIdValue(cx, d) == BArg(cx.block, d)
ThreadIdValue(cx, d) == BArg(cx.thread, d)
GridDimValue(cx, d) == cx.sizes[d + 1]
BlockDimValue(cx, d) == cx.sizes[NumDims + d + 1]
BarrierOperands(cx) == IVs(cx.thread)

\* lines 564-572
LaunchArgs(cx) == IVs(cx.block) \o IVs(cx.thread) \o cx.sizes

\* replaceOp(op, v) / replaceOpWithNewOp of a one-result operation
ReplaceOp(ar, id, v) == Erase(ReplaceAllUses(ar, Res(id, 0), v), id)

\* an allocation and a cast created where the alloca stands: not the
\* placement of lines 596 and 610
HoistInPlace(ar, id, cx, k, size, cast) ==
  Let(CreateBefore(ar, id, MkOp(k, "", 0, 1, size)), LAMBDA a1 :
  Let(CreateBefore(a1, id, MkOp(cast, "", 5, 1, <<Res(Len(a1), 0)>>)),
      LAMBDA a2 : ReplaceOp(a2, id, Res(Len(a2), 0))))

\* lines 592-616: a fresh allocation of kind k and a cast to the original
\* type, both created at the start of blockB, replace the alloca
HoistAlloca(ar, id, cx, k, size, cast) ==
  Let(CreateBefore(ar, Head(ar[cx.block].body), MkOp(k, "", 0, 1, size)), LAMBDA a1 :
  Let(CreateBefore(a1, Head(ar[cx.block].body), MkOp(cast, "", 5, 1, <<Res(Len(a1), 0)>>)),
      LAMBDA a2 : ReplaceOp(a2, id, Res(Len(a2), 0))))

\* lines 663-687: one affine.apply per result of the map, created
\* before the access; sk is the first operand of the map
ApplyOps(ar, id, sk) ==
  Let(ar \o [i \in 1..ar[id].n |->
               [MkOp("apply", ar[id].sym, i - 1, 1, SubSeq(ar[id].args, sk, Len(ar[id].args)))
                  EXCEPT !.par = ar[id].par]], LAMBDA a1 :
    [a1 EXCEPT ![ar[id].par].body =
       SubSeq(@, 1, IndexOf(@, id) - 1) \o [i \in 1..ar[id].n |-> Len(ar) + i]
         \o SubSeq(@, IndexOf(@, id), Len(@))])

\* the index computations' results, the last first: not the order of
\* lines 670 and 683
ApplyResultsReversed(ar, id) == [i \in 1..ar[id].n |-> Res(Len(ar) + ar[id].n + 1 - i, 0)]

ApplyResults(ar, id) == [i \in 1..ar[id].n |-> Res(Len(ar) + i, 0)]

\* one callback of the walks of lines 578-687
RewriteOne(ar, id, cx) ==
  CASE ar[id].k = "bid" -> ReplaceOp(ar, id, BlockIdValue(cx, ar[id].n))
    [] ar[id].k = "tid" -> ReplaceOp(ar, id, ThreadIdValue(cx, ar[id].n))
    [] ar[id].k = "gdim" -> ReplaceOp(ar, id, GridDimValue(cx, ar[id].n))
    [] ar[id].k = "bdim" -> ReplaceOp(ar, id, BlockDimValue(cx, ar[id].n))
    [] ar[id].k = "barrier0" ->
         Erase(CreateBefore(ar, id, MkOp("pbarrier", "", 0, 0, BarrierOperands(cx))), id)
    [] ar[id].k = "alloca" /\ ar[id].n = 5 -> HoistAlloca(ar, id, cx, "alloca", <<>>, "mcast")
    [] ar[id].k = "lalloca" /\ ar[id].n = 5 -> HoistAlloca(ar, id, cx, "lalloca", ar[id].args, "ascast")
    [] ar[id].k = "astore" ->
         \* args: value, memref, map operands; n: the map's number of results
         Let(ApplyOps(ar, id, 3), LAMBDA a2 :
           Erase(CreateBefore(a2, id, MkOp("store", "", 0, 0,
                   <<ar[id].args[1], ar[id].args[2]>> \o ApplyResults(ar, id))), id))
    [] ar[id].k = "aload" ->
         \* args: memref, map operands
         Let(ApplyOps(ar, id, 2), LAMBDA a2 :
         Let(CreateBefore(a2, id, MkOp("load", "", 0, 1,
                   <<ar[id].args[1]>> \o ApplyResults(ar, id))), LAMBDA a3 :
           ReplaceOp(a3, id, Res(Len(a3), 0))))
    [] OTHER -> ar

RECURSIVE RewriteEach(_, _, _)
RewriteEach(ar, ids, cx) ==
  IF ids = <<>> THEN ar
  ELSE Let(RewriteOne(ar, Head(ids), cx), LAMBDA a : RewriteEach(a, Tail(ids), cx))

\* the walks without the one of lines 631-635
WalksButBarriers == <<"bid", "alloca", "lalloca", "tid", "gdim", "bdim", "astore", "aload">>

\* container.walk([&](Kind op) {...}) for each kind in the order of the code
RewriteOrder == <<"bid", "alloca", "lalloca", "tid", "barrier0", "gdim", "bdim",
                  "astore", "aload">>

RECURSIVE RewriteWalks(_, _, _)
RewriteWalks(ar, kinds, cx) ==
  IF kinds = <<>> THEN ar
  ELSE Let(WalkKind(ar, cx.thread, {Head(kinds)}), LAMBDA ids :
       Let(RewriteEach(ar, ids, cx), LAMBDA a : RewriteWalks(a, Tail(kinds), cx)))

\* builder.mergeBlockBefore(&launchOp.getRegion().front(), mergeLoc, launchArgs)
MergeBlockBefore(ar, l, mergeLoc, largs) ==
  Let(SelectSeq(ar[l].body, LAMBDA i : ar[i].live), LAMBDA moved :
  Let(Tup([i \in 1..Len(ar) |->
             IF i \in SeqRange(moved) THEN [ar[i] EXCEPT !.par = ar[mergeLoc].par]
             ELSE IF i = ar[mergeLoc].par
             THEN [ar[i] EXCEPT !.body = SubSeq(@, 1, IndexOf(@, mergeLoc) - 1) \o moved
                                          \o SubSeq(@, IndexOf(@, mergeLoc), Len(@))]
             ELSE ar[i]]), LAMBDA a1 :
    ReplaceEach(a1, Tup([i \in 1..Len(largs) |-> BArg(l, i - 1)]), largs)))

\* lines 480-498: the two constants, the converted dependencies and the
\* async.execute; the result is the arena and the insertion point
LowerDeps(ar, l) ==
  Let(CreateBefore(ar, l, MkOp("const", "", 0, 1, <<>>)), LAMBDA a1 :
  Let(CreateBefore(a1, l, MkOp("const", "", 1, 1, <<>>)), LAMBDA a2 :
  Let(ConvertDeps(a2, l, AsyncDeps(ar, l)), LAMBDA a3 :
    IF AsyncDeps(ar, l) = <<>> THEN [ar |-> a3, ip |-> l]
    ELSE Let(CreateRegionOp(a3, l, MkOp("async", "", 0, 1,
               Tup([i \in 1..Len(AsyncDeps(ar, l)) |-> Res(Len(a2) + i, 0)])), "ayield"),
             LAMBDA a4 : [ar |-> a4, ip |-> Len(a4)]))))

\* the outer wrapper whatever the option: not the test of line 500
AlwaysWrap(r, sizes, o) ==
  Let(CreateRegionOp(r.ar, r.ip, MkOp("gpuwrap", "", 0, 0, sizes), "pyield"),
      LAMBDA a : [ar |-> a, ip |-> Len(a)])

\* lines 500-507
LowerWrapper(r, sizes, o) ==
  IF o.wrap
  THEN Let(CreateRegionOp(r.ar, r.ip, MkOp("gpuwrap", "", 0, 0, sizes), "pyield"),
           LAMBDA a : [ar |-> a, ip |-> Len(a)])
  ELSE r

\* lines 509-528: the block loop and what wraps its body; block is the loop
LowerBlock(r, loop, o) ==
  Let(CreateRegionOp(r.ar, r.ip, loop, "yield"), LAMBDA a6 :
    IF o.mode = "BlockThreadWrappers"
    THEN Let(CreateRegionOp(a6, Len(a6), MkOp("gpublock", "", 0, 0, IVs(Len(a6) - 1)),
                            "pyield"),
             LAMBDA a7 : [ar |-> a7, ip |-> Len(a7), block |-> Len(a6) - 1])
    ELSE IF o.mode = "BlockThreadNoops"
    THEN Let(CreateBefore(a6, Len(a6), MkOp("noop", "gpu_kernel.block", 0, 0,
                                            IVs(Len(a6) - 1))),
             LAMBDA a7 : [ar |-> a7, ip |-> Len(a6), block |-> Len(a6) - 1])
    ELSE [ar |-> a6, ip |-> Len(a6), block |-> Len(a6) - 1])

\* lines 530-561: the thread loop and what wraps its body; thread is the
\* loop, ip the operation the kernel is merged before
LowerThread(r, loop, o) ==
  Let(CreateRegionOp(r.ar, r.ip, loop, "yield"), LAMBDA a8 :
    IF o.mode = "BlockThreadWrappers"
    THEN Let(CreateRegionOp(a8, Len(a8), MkOp("gputhread", "", 0, 0, IVs(Len(a8) - 1)),
                            "pyield"),
             LAMBDA a9 : [ar |-> a9, ip |-> Len(a9), block |-> r.block, thread |-> Len(a8) - 1])
    ELSE IF o.mode = "BlockThreadNoops"
    THEN Let(CreateBefore(a8, Len(a8), MkOp("noop", "gpu_kernel.thread", 0, 0,
                                            IVs(Len(a8) - 1))),
             LAMBDA a9 : [ar |-> a9, ip |-> Len(a8), block |-> r.block, thread |-> Len(a8) - 1])
    ELSE IF o.mode = "ThreadNoop"
    THEN Let(CreateBefore(a8, Len(a8), MkOp("noop", "gpu_kernel.thread_only", 0, 0,
                                            IVs(Len(a8) - 1))),
             LAMBDA a9 : [ar |-> a9, ip |-> Len(a8), block |-> r.block, thread |-> Len(a8) - 1])
    ELSE [ar |-> a8, ip |-> Len(a8), block |-> r.block, thread |-> Len(a8) - 1])

\* lines 562-688: the launch's terminator erased (its tombstone is kept in
\* the launch's body), the kernel merged into the thread loop, the
\* intrinsics rewritten, the launch erased
LowerBody(r, l, sizes) ==
  Let([block |-> r.block, thread |-> r.thread, sizes |-> sizes], LAMBDA cx :
  Let([r.ar EXCEPT ![Last(r.ar[l].body)].live = FALSE], LAMBDA a10 :
  Let(MergeBlockBefore(a10, l, r.ip, LaunchArgs(cx)), LAMBDA a11 :
  Let(RewriteWalks(a11, RewriteOrder, cx), LAMBDA a12 :
    Erase(a12, l)))))

\* lines 476-688 for launch l; zindex and oneindex are the first two
\* operations created
LowerLaunch(ar, l, o) ==
  Let(LowerDeps(ar, l), LAMBDA r1 :
  Let(LowerWrapper(r1, SubSeq(ar[l].args, 1, 2 * NumDims), o), LAMBDA r2 :
  Let(LowerBlock(r2, BlockLoop(ar, l, Res(Len(ar) + 1, 0), Res(Len(ar) + 2, 0)), o), LAMBDA r3 :
  Let(LowerThread(r3, ThreadLoop(ar, l, Res(Len(ar) + 1, 0), Res(Len(ar) + 2, 0)), o), LAMBDA r4 :
    LowerBody(r4, l, SubSeq(ar[l].args, 1, 2 * NumDims))))))

\* tok is null at line 490 when a dependency is not defined by a
\* polygeist.stream2token; the asserts of lines 587, 627, 646, 659
LowerAborts(ar, l) ==
  \/ \E i \in 1..Len(AsyncDeps(ar, l)) : ~IsStreamToken(ar, AsyncDeps(ar, l)[i])
  \/ \E i \in SeqRange(WalkKind(ar, l, {"bid", "tid", "gdim", "bdim"})) : ar[i].n \notin Dims

Lower ==
  /\ pc = "lower" /\ Idle
  /\ IF LowerAborts(ops, toHandle[cur])
     THEN pc' = "crashed" /\ UNCHANGED <<ops, cur>>
     ELSE /\ ops' = LowerLaunch(ops, toHandle[cur], opts)
          /\ cur' = cur + 1
          /\ pc' = "launch"
  /\ UNCHANGED <<opts, todo, stack, inlineOps, toFollowOps, toinl, toHandle, follow, DeclState, errs>>

LaunchDone ==
  /\ pc = "launch" /\ cur > Len(toHandle)
  /\ pc' = "fold"
  /\ UNCHANGED <<ops, opts, todo, stack, inlineOps, toFollowOps, toinl, cur, toHandle, follow, DeclState, errs>>

\* operations without side effects, erased by the greedy driver when unused
PureKinds == {"const", "tid", "bid", "gdim", "bdim", "apply", "mcast", "ascast",
              "cint", "extui", "trunci", "m2p", "gep", "null"}

LiveIds(ar) == {i \in 1..Len(ar) : ar[i].live}

Used(ar, id) == \E j \in LiveIds(ar) : \E a \in SeqRange(ar[j].args) : a[1] = "r" /\ a[2] = id

DeadOps(ar) == {i \in LiveIds(ar) : ar[i].k \in PureKinds /\ ~Used(ar, i)}

RECURSIVE FoldDead(_)
FoldDead(ar) ==
  Let(ar, LAMBDA a :
  Let(DeadOps(a), LAMBDA dead :
    IF dead = {} THEN a
    ELSE FoldDead(Tup([i \in 1..Len(a) |->
                     [a[i] EXCEPT !.live = @ /\ i \notin dead,
                                  !.body = SelectSeq(@, LAMBDA j : j \notin dead)]]))))

\* lines 691-696: applyPatternsAndFoldGreedily with an empty pattern set
Fold ==
  /\ pc = "fold"
  /\ ops' = FoldDead(ops)
  /\ pc' = "done"
  /\ UNCHANGED <<opts, todo, stack, inlineOps, toFollowOps, toinl, cur, toHandle, follow, DeclState, errs>>

Next ==
  \/ StartInline \/ InlEnter \/ InlNestedCalls \/ InlNestedLLVMCalls \/ InlWrap \/ InlAbort \/ InlOverflow
  \/ CollectDims \/ Seed \/ ClosureStep \/ ClosureOverflow \/ ClosureDone \/ ApplyNext \/ ApplyDone
  \/ FollowStep \/ FollowEnd \/ FollowDone
  \/ CollectLaunches \/ LaunchCalls \/ LaunchLLVMCalls \/ Lower \/ LaunchDone \/ Fold

Spec == Init /\ [][Next]_vars

\* The pass runs on: a step that can be taken is taken.
FairSpec == Spec /\ WF_vars(Next)

----------------------------------------------------------------------------
(* callMalloc and GetOrCreateFreeFunction, lines 188-237, called by the    *)
(* threads that rewrite the cudaMalloc and cudaFree calls of one module    *)
(* (lines 794 and 805).  Thread t emits its calls in function Kernels[t].  *)
(* threads[t] is [pc, calls, fn, rets]: the thread's position, the number  *)
(* of routines it has entered, the routine's local fn, and what each       *)
(* finished routine returned, as [routine, val].  A lock is 0 when free    *)
(* and the thread that holds it otherwise.                                 *)

NumThreads == 2

\* the number of cudaMalloc and cudaFree calls there are to rewrite
MaxCalls == 3

Threads == 1..NumThreads

\* what the module holds under a name before the routines run
Declared(name, kind) ==
  IF kind = "none" THEN <<>>
  ELSE IF kind = "func" THEN << Func(name, 1, 1, <<>>) >>
  ELSE << LLVMFunc(name, 1, 1, <<>>) >>

DeclKinds == {"none", "func", "llvmfunc"}

\* the functions the threads work in, one per thread
Kernels == <<"k1", "k2", "k3", "k4">>

DeclModule(m, f) ==
  BuildModule(Declared("malloc", m) \o Declared("free", f)
                \o [t \in Threads |-> Func(Kernels[t], 1, 0, << Ret(<<>>) >>)])

Thread0 == [pc |-> "idle", calls |-> 0, fn |-> 0, rets |-> <<>>]

InitDecl ==
  /\ ops \in {DeclModule(m, f) : m \in DeclKinds, f \in DeclKinds}
  /\ threads = Tup([t \in Threads |-> Thread0])
  /\ mallocMutex = 0
  /\ freeMutex = 0
  /\ errs = <<>>
  /\ opts = DefaultOpts
  /\ pc = "decl"
  /\ todo = <<>>
  /\ stack = <<>>
  /\ inlineOps = <<>>
  /\ toFollowOps = <<>>
  /\ toinl = <<>>
  /\ cur = 0
  /\ toHandle = <<>>
  /\ follow = NoFollow

\* the process has not aborted
Running == \A t \in Threads : threads[t].pc # "abort"

At(t, where) == Running /\ threads[t].pc = where

\* the symbol names of the module's body are unique: what the constructor
\* of SymbolTable asserts when lookupSymbolIn builds the table
UniqueSymbols(ar) ==
  \A i, j \in SeqRange(ar[ModuleId].body) :
    (ar[i].k \in FuncKinds /\ ar[j].k \in FuncKinds /\ ar[i].sym = ar[j].sym) => i = j

\* ibuilder.create<CallOp>(loc, fn, args): a call of kind k to fn, before
\* the terminator of the thread's function
EmitCall(ar, t, k, fn) ==
  CreateBefore(ar, Last(ar[Lookup(ar, Kernels[t])].body),
               MkOp(k, ar[fn].sym, 0, 1, << BArg(Lookup(ar, Kernels[t]), 0) >>))

\* builder.setInsertionPointToStart(module.getBody()); builder.create<LLVMFuncOp>
CreateDecl(ar, name) == CreateAtStart(ar, ModuleId, MkOp("llvmfunc", name, 1, 1, <<>>))

\* the routines entered so far
RECURSIVE Entered(_)
Entered(ts) == IF ts = <<>> THEN 0 ELSE Head(ts).calls + Entered(Tail(ts))

\* lines 794 and 805: the thread reaches a cudaMalloc or a cudaFree call
Invoke(t) ==
  /\ At(t, "idle") /\ Entered(threads) < MaxCalls
  /\ \E r \in {"m_lock", "f_lock"} :
       threads' = [threads EXCEPT ![t].pc = r, ![t].calls = @ + 1, ![t].fn = 0]
  /\ UNCHANGED <<ops, mallocMutex, freeMutex, PassState>>

\* lines 190-191
MallocLock(t) ==
  /\ At(t, "m_lock") /\ mallocMutex = 0
  /\ mallocMutex' = t
  /\ threads' = [threads EXCEPT ![t].pc = "m_func"]
  /\ UNCHANGED <<ops, freeMutex, PassState>>

\* lines 196-199: malloc is a func.func
MallocLookupFunc(t) ==
  /\ At(t, "m_func")
  /\ \E fn \in {Lookup(ops, "malloc")} :
       IF fn # 0 /\ ops[fn].k = "func"
       THEN /\ ops' = EmitCall(ops, t, "call", fn)
            /\ threads' = [threads EXCEPT ![t].pc = "m_ret", ![t].fn = Len(ops) + 1]
       ELSE /\ threads' = [threads EXCEPT ![t].pc = "m_llvm"]
            /\ UNCHANGED ops
  /\ UNCHANGED <<mallocMutex, freeMutex, PassState>>

\* lines 200-201: malloc is not an llvm.func
MallocLookupLLVM(t) ==
  /\ At(t, "m_llvm")
  /\ \E fn \in {Lookup(ops, "malloc")} :
       threads' = [threads EXCEPT
                     ![t].pc = IF fn # 0 /\ ops[fn].k = "llvmfunc" THEN "m_call"
                               ELSE "m_create"]
  /\ UNCHANGED <<ops, mallocMutex, freeMutex, PassState>>

\* lines 202-211
MallocCreate(t) ==
  /\ At(t, "m_create")
  /\ ops' = CreateDecl(ops, "malloc")
  /\ threads' = [threads EXCEPT ![t].pc = "m_call"]
  /\ UNCHANGED <<mallocMutex, freeMutex, PassState>>

\* lines 214-216; cast<LLVM::LLVMFuncOp> of anything else aborts
MallocCall(t) ==
  /\ At(t, "m_call")
  /\ \E fn \in {Lookup(ops, "malloc")} :
       IF fn # 0 /\ ops[fn].k = "llvmfunc"
       THEN /\ ops' = EmitCall(ops, t, "lcall", fn)
            /\ threads' = [threads EXCEPT ![t].pc = "m_ret", ![t].fn = Len(ops) + 1]
       ELSE /\ threads' = [threads EXCEPT ![t].pc = "abort"]
            /\ UNCHANGED ops
  /\ UNCHANGED <<mallocMutex, freeMutex, PassState>>

\* the return of lines 198 and 216: the call's result, the lock released
MallocReturn(t) ==
  /\ At(t, "m_ret")
  /\ mallocMutex' = 0
  /\ threads' = [threads EXCEPT
                   ![t].pc = "idle",
                   ![t].rets = Append(@, [routine |-> "malloc", val |-> threads[t].fn])]
  /\ UNCHANGED <<ops, freeMutex, PassState>>

\* lines 219-220
FreeLock(t) ==
  /\ At(t, "f_lock") /\ freeMutex = 0
  /\ freeMutex' = t
  /\ threads' = [threads EXCEPT ![t].pc = "f_llvm"]
  /\ UNCHANGED <<ops, mallocMutex, PassState>>

\* lines 224-226: free is an llvm.func
FreeLookup(t) ==
  /\ At(t, "f_llvm")
  /\ \E fn \in {Lookup(ops, "free")} :
       threads' = IF fn # 0 /\ ops[fn].k = "llvmfunc"
                  THEN [threads EXCEPT ![t].pc = "f_ret", ![t].fn = fn]
                  ELSE [threads EXCEPT ![t].pc = "f_create"]
  /\ UNCHANGED <<ops, mallocMutex, freeMutex, PassState>>

\* lines 227-236
FreeCreate(t) ==
  /\ At(t, "f_create")
  /\ ops' = CreateDecl(ops, "free")
  /\ threads' = [threads EXCEPT ![t].pc = "f_ret", ![t].fn = Len(ops) + 1]
  /\ UNCHANGED <<mallocMutex, freeMutex, PassState>>

\* the return of lines 226 and 235: the declaration, the lock released
FreeReturn(t) ==
  /\ At(t, "f_ret")
  /\ freeMutex' = 0
  /\ threads' = [threads EXCEPT
                   ![t].pc = "idle",
                   ![t].rets = Append(@, [routine |-> "free", val |-> threads[t].fn])]
  /\ UNCHANGED <<ops, mallocMutex, PassState>>

LookupSites == {"m_func", "m_llvm", "m_call", "f_llvm"}

\* lookupSymbolIn builds the module's SymbolTable, whose constructor asserts
\* that the symbol names are unique: with assertions on, the process aborts
\* (with assertions off the first symbol of the name is found)
LookupAborts(t) ==
  /\ Running /\ threads[t].pc \in LookupSites
  /\ ~UniqueSymbols(ops)
  /\ threads' = [threads EXCEPT ![t].pc = "abort"]
  /\ UNCHANGED <<ops, mallocMutex, freeMutex, PassState>>

NextDecl ==
  \E t \in Threads :
    \/ Invoke(t)
    \/ MallocLock(t) \/ MallocLookupFunc(t) \/ MallocLookupLLVM(t) \/ MallocCreate(t)
    \/ MallocCall(t) \/ MallocReturn(t)
    \/ FreeLock(t) \/ FreeLookup(t) \/ FreeCreate(t) \/ FreeReturn(t)
    \/ LookupAborts(t)

SpecDecl == InitDecl /\ [][NextDecl]_vars

----------------------------------------------------------------------------
(* ConvertCudaRTtoCPU (lines 705-854) and ConvertCudaRTtoHipRT (lines      *)
(* 895-963): the passes that retarget the calls of the CUDA runtime.  pc   *)
(* is the policy while a pass runs, cur counts the walks begun, todo holds *)
(* the calls the current walk still visits.  A call's n is the width of    *)
(* its result; "alloc" yields a memref, "null" a pointer, "cint" an        *)
(* integer constant of width n whose bit pattern sym names.                *)

Policies == {"cpu", "hip"}

RTCall(ck, name, rw, a) == S(ck, name, rw, 1, a, <<>>)
CInt(pat, w) == S("cint", pat, w, 1, <<>>, <<>>)

\* the bit patterns of a size: 0, 1, the top bit alone, all bits
Patterns == {"zero", "lsb", "msb", "ones"}
Widths == {8, 32, 64}

\* a call of the runtime with the operations that define its operands
RTStmts(ck) ==
  LET P == {Leaf("alloc", 0), Leaf("null", 0)}
      p(j) == <<"p", j, 0>>
  IN {<< d, s, CInt("lsb", 64), RTCall(ck, nm, 32, <<p(3), p(2), p(1)>>) >> :
        d \in P, s \in P, nm \in {"cudaMemcpy", "cudaMemcpyAsync"}}
     \cup {<< d, Leaf("null", 0), CInt("lsb", 64), CInt("lsb", 64),
              RTCall(ck, "cudaMemcpyToSymbol", 32, <<p(4), p(3), p(2), p(1)>>) >> : d \in P}
     \cup {<< d, CInt("lsb", 32), CInt("lsb", 64),
              RTCall(ck, "cudaMemset", 32, <<p(3), p(2), p(1)>>) >> : d \in P}
     \cup {<< Leaf("null", 0), CInt(pat, w), RTCall(ck, "cudaMalloc", 32, <<p(2), p(1)>>) >> :
              pat \in Patterns, w \in Widths}
     \cup {<< Leaf("null", 0), CInt("ones", 32),
              RTCall(ck, "cudaMallocHost", 32, <<p(2), p(1)>>) >>}
     \cup {<< Leaf("null", 0), RTCall(ck, nm, 32, <<p(1)>>) >> :
              nm \in {"cudaFree", "cudaFreeHost", "foo"}}
     \cup {<< RTCall(ck, nm, rw, <<>>) >> :
              nm \in {"cudaDeviceSynchronize", "cudaThreadSynchronize", "cudaGetLastError",
                      "cudaPeekAtLastError"}, rw \in {32, 64}}
     \cup {<< Leaf("null", 0), CInt("zero", 32),
              RTCall(ck, "cudaGetDeviceProperties", 32, <<p(2), p(1)>>) >>}
     \* a low-level call through a pointer: no callee attribute
     \cup (IF ck = "lcall"
           THEN {<< Leaf("null", 0), RTCall(ck, "", 32, <<p(1), p(1)>>) >>}
           ELSE {})

\* the calls a module's second call is drawn from
RTSecond(ck) ==
  {s \in RTStmts(ck) :
     /\ Last(s).sym \in {"cudaFree", "cudaMalloc", "cudaDeviceSynchronize",
                         "cudaThreadSynchronize", "cudaGetDeviceProperties", "foo"}
     /\ Last(s).n = 32
     /\ \A j \in 1..Len(s) : s[j].k = "cint" => s[j].sym \in {"zero", "ones"} /\ s[j].n = 32}

\* the names the passes may create a declaration for
Synthesized == <<"malloc", "free", "hipMalloc", "hipDeviceSynchronize">>

\* main calls the runtime twice, uses each result and ends in a barrier;
\* the user of the first result is a call of foo when chk holds (the
\* program checks the returned error code), a plain operation otherwise.
\* Every callee is declared as the kind of function its calls need, and the
\* module declares the names of Synthesized as functions of kind pre.
RTModule(ck, pre, chk, s1, s2) ==
  LET names == ({Last(s1).sym, Last(s2).sym} \cup (IF chk THEN {"foo"} ELSE {})) \ {""}
      decl(nm) == IF nm \in names
                  THEN Declared(nm, IF ck = "call" THEN "func" ELSE "llvmfunc")
                  ELSE <<>>
      user == IF chk THEN RTCall(ck, "foo", 32, << <<"p", 1, 0>> >>)
              ELSE Use(<< <<"p", 1, 0>> >>)
  IN BuildModule(
       decl("cudaMemcpy") \o decl("cudaMemcpyAsync") \o decl("cudaMemcpyToSymbol")
       \o decl("cudaMemset") \o decl("cudaMalloc") \o decl("cudaMallocHost")
       \o decl("cudaFree") \o decl("cudaFreeHost") \o decl("cudaDeviceSynchronize")
       \o decl("cudaThreadSynchronize") \o decl("cudaGetLastError")
       \o decl("cudaPeekAtLastError") \o decl("cudaGetDeviceProperties") \o decl("foo")
       \o Declared(Synthesized[1], pre) \o Declared(Synthesized[2], pre)
       \o Declared(Synthesized[3], pre) \o Declared(Synthesized[4], pre)
       \o << Func("main", 0, 0,
                  s1 \o << user >> \o s2
                     \o << Use(<< <<"p", 1, 0>> >>), S("barrier0", "", 0, 0, <<>>, <<>>),
                           Ret(<<>>) >>) >>)

InitRT ==
  /\ ops \in UNION {{RTModule(ck, pre, chk, s1, s2) :
                        pre \in DeclKinds, chk \in BOOLEAN, s1 \in RTStmts(ck),
                        s2 \in RTSecond(ck)} :
                      ck \in CallKinds}
  /\ pc \in Policies
  /\ cur = 0
  /\ todo = <<>>
  /\ opts = DefaultOpts
  /\ stack = <<>>
  /\ inlineOps = <<>>
  /\ toFollowOps = <<>>
  /\ toinl = <<>>
  /\ toHandle = <<>>
  /\ follow = NoFollow
  /\ threads = NoThreads
  /\ mallocMutex = 0
  /\ freeMutex = 0
  /\ errs = <<>>

Operand(ar, c, i) == ar[c].args[i + 1]

\* dst.getType().dyn_cast<MemRefType>()
IsMemRef(ar, v) == v[1] = "r" /\ ar[v[2]].k = "alloc"

\* the value as it is, whatever its type: not lines 718-724
AsItIs(ar, c, v) == [ar |-> ar, v |-> v]

\* lines 717-724: the value, or the polygeist.memref2pointer created for it
AsPointer(ar, c, v) ==
  IF IsMemRef(ar, v)
  THEN Let(CreateBefore(ar, c, MkOp("m2p", "", 0, 1, <<v>>)),
           LAMBDA a : [ar |-> a, v |-> Res(Len(a), 0)])
  ELSE [ar |-> ar, v |-> v]

\* the call erased and nothing else: not lines 700-701
EraseCall(ar, c) == Erase(ar, c)

\* lines 699-703, and 736-738 and its like: a constant 0 of the result's
\* type takes the place of the call's result, and the call is erased
ReplaceCallWithSuccess(ar, c) ==
  Let(CreateBefore(ar, c, MkOp("cint", "zero", ar[c].n, 1, <<>>)), LAMBDA a :
    Erase(ReplaceAllUses(a, Res(c, 0), Res(Len(a), 0)), c))

\* m.lookupSymbol<Kind>(name): the first symbol of the name, if of the kind
LookupKind(ar, name, kind) ==
  Let(Lookup(ar, name), LAMBDA f : IF f # 0 /\ ar[f].k = kind THEN f ELSE 0)

\* callMalloc (lines 188-217) with ibuilder before call c: the call of
\* malloc is the last operation of the result
CallMallocAt(ar, c, arg) ==
  IF LookupKind(ar, "malloc", "func") # 0
  THEN CreateBefore(ar, c, MkOp("call", "malloc", 0, 1, <<arg>>))
  ELSE Let(IF LookupKind(ar, "malloc", "llvmfunc") # 0 THEN ar ELSE CreateDecl(ar, "malloc"),
           LAMBDA a : CreateBefore(a, c, MkOp("lcall", "malloc", 0, 1, <<arg>>)))

\* GetOrCreateFreeFunction (lines 218-237)
FreeFunction(ar) ==
  IF LookupKind(ar, "free", "llvmfunc") # 0 THEN ar ELSE CreateDecl(ar, "free")

\* the bits a pattern of width w names, the most significant first
Bits(pat, w) ==
  [i \in 1..w |-> CASE pat = "zero" -> 0
                    [] pat = "lsb" -> IF i = w THEN 1 ELSE 0
                    [] pat = "msb" -> IF i = 1 THEN 1 ELSE 0
                    [] pat = "ones" -> 1]

\* sign extension to w bits: not the arith.extui of line 792
SExt(b, w) == [i \in 1..w - Len(b) |-> b[1]] \o b

\* arith.extui to w bits: zeros in front
ZExt(b, w) == [i \in 1..w - Len(b) |-> 0] \o b

\* the bits of an integer value of the module
RECURSIVE Eval(_, _)
Eval(ar, v) ==
  LET o == ar[v[2]]
  IN IF o.k = "extui" THEN ZExt(Eval(ar, o.args[1]), o.n) ELSE Bits(o.sym, o.n)

\* lines 789-792: the size, or the arith.extui of it to 64 bits
Widen(ar, c, v) ==
  IF ar[v[2]].n < 64
  THEN Let(CreateBefore(ar, c, MkOp("extui", "", 64, 1, <<v>>)),
           LAMBDA a : [ar |-> a, v |-> Res(Len(a), 0)])
  ELSE [ar |-> ar, v |-> v]

\* every call taken for one that is rewritten: not the tests of lines
\* 714-829
ReplaceAny(ar, c) == ReplaceCallWithSuccess(ar, c)

\* the callback replace of lines 712-838 for call c
ReplaceCPU(ar, c) ==
  LET falsev == Res(Len(ar) + 1, 0)
      withFalse == CreateBefore(ar, c, MkOp("cint", "zero", 1, 1, <<>>))
  IN CASE ar[c].sym \in {"cudaMemcpy", "cudaMemcpyAsync"} ->
            Let(AsPointer(withFalse, c, Operand(ar, c, 0)), LAMBDA d :
            Let(AsPointer(d.ar, c, Operand(ar, c, 1)), LAMBDA s :
            Let(CreateBefore(s.ar, c, MkOp("memcpy", "", 0, 0,
                               <<d.v, s.v, Operand(ar, c, 2), falsev>>)), LAMBDA a :
              ReplaceCallWithSuccess(a, c))))
       [] ar[c].sym = "cudaMemcpyToSymbol" ->
            Let(AsPointer(withFalse, c, Operand(ar, c, 0)), LAMBDA d :
            Let(AsPointer(d.ar, c, Operand(ar, c, 1)), LAMBDA s :
            Let(CreateBefore(s.ar, c, MkOp("gep", "", 0, 1, <<d.v, Operand(ar, c, 3)>>)),
                LAMBDA g :
            Let(CreateBefore(g, c, MkOp("memcpy", "", 0, 0,
                               <<Res(Len(g), 0), s.v, Operand(ar, c, 2), falsev>>)), LAMBDA a :
              ReplaceCallWithSuccess(a, c)))))
       [] ar[c].sym = "cudaMemset" ->
            Let(AsPointer(withFalse, c, Operand(ar, c, 0)), LAMBDA d :
            Let(CreateBefore(d.ar, c, MkOp("trunci", "", 8, 1, <<Operand(ar, c, 1)>>)),
                LAMBDA t :
            Let(CreateBefore(t, c, MkOp("memset", "", 0, 0,
                               <<d.v, Res(Len(t), 0), Operand(ar, c, 2), falsev>>)), LAMBDA a :
              ReplaceCallWithSuccess(a, c))))
       [] ar[c].sym \in {"cudaMalloc", "cudaMallocHost"} ->
            Let(Widen(ar, c, Operand(ar, c, 1)), LAMBDA w :
            Let(CallMallocAt(w.ar, c, w.v), LAMBDA m :
            Let(CreateBefore(m, c, MkOp("lstore", "", 0, 0,
                               <<Res(Len(m), 0), Operand(ar, c, 0)>>)), LAMBDA a :
              ReplaceCallWithSuccess(a, c))))
       [] ar[c].sym \in {"cudaFree", "cudaFreeHost"} ->
            Let(FreeFunction(ar), LAMBDA f :
            Let(CreateBefore(f, c, MkOp("lcall", "free", 0, 0, <<Operand(ar, c, 0)>>)),
                LAMBDA a : ReplaceCallWithSuccess(a, c)))
       [] ar[c].sym \in {"cudaDeviceSynchronize", "cudaThreadSynchronize",
                         "cudaGetLastError", "cudaPeekAtLastError"} ->
            ReplaceCallWithSuccess(ar, c)
       [] OTHER -> ar

\* the names of cudartSymbols (lines 1001-1388) that the modules use
CudartSymbols ==
  {"cudaMemcpy", "cudaMemcpyAsync", "cudaMemcpyToSymbol", "cudaMemset", "cudaMalloc",
   "cudaMallocHost", "cudaFree", "cudaFreeHost", "cudaDeviceSynchronize",
   "cudaThreadSynchronize", "cudaGetLastError", "cudaPeekAtLastError",
   "cudaGetDeviceProperties"}

\* lines 1393-1395
InequivalentCudartSymbols == {"cudaGetDeviceProperties"}

\* every name taken to have an equivalent: not the test of lines 886-890
AllEquivalent(name) == TRUE

\* lines 883-891
IsHipCallEquivalent(name) == name \notin InequivalentCudartSymbols

\* lines 874-880: "cuda" replaced by "hip", cudaThreadSynchronize apart
GetHipName(name) ==
  CASE name = "cudaThreadSynchronize" -> "hipDeviceSynchronize"
    [] name = "cudaMemcpy" -> "hipMemcpy"
    [] name = "cudaMemcpyAsync" -> "hipMemcpyAsync"
    [] name = "cudaMemcpyToSymbol" -> "hipMemcpyToSymbol"
    [] name = "cudaMemset" -> "hipMemset"
    [] name = "cudaMalloc" -> "hipMalloc"
    [] name = "cudaMallocHost" -> "hipMallocHost"
    [] name = "cudaFree" -> "hipFree"
    [] name = "cudaFreeHost" -> "hipFreeHost"
    [] name = "cudaDeviceSynchronize" -> "hipDeviceSynchronize"
    [] name = "cudaGetLastError" -> "hipGetLastError"
    [] name = "cudaPeekAtLastError" -> "hipPeekAtLastError"
    [] name = "cudaGetDeviceProperties" -> "hipGetDeviceProperties"

\* lines 903-904 and 925-926: funcOp is the callee as a func.func, null
\* when the callee is an llvm.func; line 929 casts the clone of a func.func
\* to LLVMFuncOp.  In a build with assertions either aborts the pass.
HipAborts(ar, c) ==
  /\ ar[c].sym \in CudartSymbols /\ IsHipCallEquivalent(ar[c].sym)
  /\ \/ LookupKind(ar, ar[c].sym, "func") = 0
     \/ ar[c].k = "lcall" /\ LookupKind(ar, GetHipName(ar[c].sym), "llvmfunc") = 0

\* lines 907-908 and 928-929 in a build without assertions: the clone of
\* *funcOp.getOperation() with funcOp null dereferences null
HipDerefsNull(ar, c) ==
  /\ ar[c].sym \in CudartSymbols /\ IsHipCallEquivalent(ar[c].sym)
  /\ LookupKind(ar, ar[c].sym, "func") = 0
  /\ LookupKind(ar, GetHipName(ar[c].sym), IF ar[c].k = "call" THEN "func" ELSE "llvmfunc") = 0

\* replaceCallOpWithHipCall / replaceLLVMCallOpWithHipCall, lines 896-939,
\* behind the tests of lines 942-946 and 951-953
ReplaceHip(ar, c) ==
  IF ar[c].sym \notin CudartSymbols THEN ar
  ELSE IF IsHipCallEquivalent(ar[c].sym)
  THEN Let(GetHipName(ar[c].sym), LAMBDA hip :
       Let(IF LookupKind(ar, hip, IF ar[c].k = "call" THEN "func" ELSE "llvmfunc") = 0
           THEN CreateAtEnd(ar, ModuleId,
                            [ar[LookupKind(ar, ar[c].sym, "func")] EXCEPT !.sym = hip])
           ELSE ar, LAMBDA a :
         [a EXCEPT ![c].sym = hip]))
  ELSE ReplaceCallWithSuccess(ar, c)

\* lines 913-914 and 935-936: the line written for a runtime call that
\* has no equivalent, named by its callee
Warn(ar, c, e) ==
  IF ar[c].sym \in CudartSymbols /\ ~IsHipCallEquivalent(ar[c].sym)
  THEN Append(e, [warning |-> "Unsupported CUDART call", callee |-> ar[c].sym])
  ELSE e

\* lines 958-962: each NVVM barrier gives way to a ROCDL barrier
RECURSIVE HipBarriers(_, _)
HipBarriers(ar, ids) ==
  IF ids = <<>> THEN ar
  ELSE Let(Erase(CreateBefore(ar, Head(ids), MkOp("rbarrier", "", 0, 0, <<>>)), Head(ids)),
           LAMBDA a : HipBarriers(a, Tail(ids)))

\* lines 840 and 846 (941 and 950): a walk begins, first over the
\* low-level calls, then over the calls
RTWalk ==
  /\ pc \in Policies /\ todo = <<>> /\ cur < 2
  /\ todo' = WalkKind(ops, ModuleId, {IF cur = 0 THEN "lcall" ELSE "call"})
  /\ cur' = cur + 1
  /\ UNCHANGED <<ops, opts, pc, stack, inlineOps, toFollowOps, toinl, toHandle, follow, DeclState, errs>>

\* one callback of the walk
RTVisit ==
  /\ pc \in Policies /\ todo # <<>>
  /\ ~(pc = "hip" /\ HipDerefsNull(ops, Head(todo)))
  /\ ops' = IF pc = "cpu" THEN ReplaceCPU(ops, Head(todo)) ELSE ReplaceHip(ops, Head(todo))
  /\ errs' = IF pc = "hip" THEN Warn(ops, Head(todo), errs) ELSE errs
  /\ todo' = Tail(todo)
  /\ UNCHANGED <<opts, pc, cur, stack, inlineOps, toFollowOps, toinl, toHandle, follow, DeclState>>

\* the callback aborts: on the vendor-rename policy as HipAborts says, in
\* a build with assertions (one without goes on in RTVisit unless it
\* dereferences null); on the CPU policy when lookupSymbolIn (lines 196,
\* 225) builds the symbol table of a module that holds a name twice, in a
\* build with assertions
RTAbort ==
  /\ pc \in Policies /\ todo # <<>>
  /\ \/ pc = "hip" /\ HipAborts(ops, Head(todo))
     \/ /\ pc = "cpu" /\ ~UniqueSymbols(ops)
        /\ ops[Head(todo)].sym \in {"cudaMalloc", "cudaMallocHost", "cudaFree", "cudaFreeHost"}
  /\ pc' = "crashed"
  /\ UNCHANGED <<ops, opts, todo, cur, stack, inlineOps, toFollowOps, toinl, toHandle, follow, DeclState, errs>>

\* lines 848-853: the greedy driver with no patterns; lines 957-962
RTFinish ==
  /\ pc \in Policies /\ todo = <<>> /\ cur = 2
  /\ ops' = IF pc = "cpu" THEN FoldDead(ops)
            ELSE HipBarriers(ops, WalkKind(ops, ModuleId, {"barrier0"}))
  /\ pc' = "done"
  /\ UNCHANGED <<opts, todo, cur, stack, inlineOps, toFollowOps, toinl, toHandle, follow, DeclState, errs>>

NextRT == RTWalk \/ RTVisit \/ RTAbort \/ RTFinish

SpecRT == InitRT /\ [][NextRT]_vars

----------------------------------------------------------------------------
(* Properties of the launch lowering.                                      *)

\* the step of Lower that lowers launch toHandle[cur]
LowerStep == pc = "lower" /\ pc' = "launch"

NewOps(old, new, kind) == {i \in Len(old) + 1..Len(new) : new[i].k = kind}

IsConstant(ar, v, n) == v[1] = "r" /\ ar[v[2]].k = "const" /\ ar[v[2]].n = n

\* loop p runs from (0,0,0) to ub by (1,1,1)
LoopOver(ar, p, ub) ==
  /\ Len(ar[p].args) = 3 * NumDims
  /\ \A d \in 1..NumDims : IsConstant(ar, ar[p].args[d], 0)
  /\ SubSeq(ar[p].args, NumDims + 1, 2 * NumDims) = ub
  /\ \A d \in 1..NumDims : IsConstant(ar, ar[p].args[2 * NumDims + d], 1)

Inside(ar, p, i) == i \in SeqRange(WalkList(ar, ar[p].body))

\* the operations of launch l's body, its terminator left out
KernelOps(ar, l) == SeqRange(WalkList(ar, Front(ar[l].body)))

\* the loops the step creates: the one that is in no other, and the other
OuterLoop == CHOOSE b \in NewOps(ops, ops', "par") :
               \A t \in NewOps(ops, ops', "par") : ~Inside(ops', t, b)
InnerLoop == CHOOSE t \in NewOps(ops, ops', "par") : t # OuterLoop

\* the inner loop is an operation of the outer loop's body
DirectlyNested(ar, b, t) == t \in SeqRange(ar[b].body)

\* ... or of the block-scope wrapper that is one
NestedInBlockWrapper(ar, b, t) ==
  /\ opts.mode = "BlockThreadWrappers"
  /\ ar[ar[t].par].k = "gpublock"
  /\ DirectlyNested(ar, ar[t].par, t)
  /\ DirectlyNested(ar, b, ar[t].par)

TwoLoopNest(direct) ==
  LET l == toHandle[cur]
      loops == NewOps(ops, ops', "par")
  IN \E b \in loops : \E t \in loops :
       /\ loops = {b, t} /\ b # t
       /\ LoopOver(ops', b, GridSizes(ops, l))
       /\ LoopOver(ops', t, BlockSizes(ops, l))
       /\ \/ DirectlyNested(ops', b, t)
          \/ ~direct /\ NestedInBlockWrapper(ops', b, t)
       /\ \A i \in KernelOps(ops, l) : ops'[i].live => Inside(ops', t, i)

\* C1, as claimed: lowering a launch with sizes (Gx,Gy,Gz,Bx,By,Bz) creates
\* exactly two parallel loops, the outer over (0,0,0)..(Gx,Gy,Gz) by (1,1,1),
\* the inner over (0,0,0)..(Bx,By,Bz) by (1,1,1) and an operation of the
\* outer loop's body itself, and the kernel body ends up inside the inner one.
C1_DirectNest == [][LowerStep => TwoLoopNest(TRUE)]_vars

\* C1, amended: as above, but the inner loop is an operation of the outer
\* loop's body or, in mode BlockThreadWrappers, of the block-scope wrapper
\* that is an operation of the outer loop's body.
C1_LoopNest == [][LowerStep => TwoLoopNest(FALSE)]_vars

\* a launch has been lowered in mode BlockThreadWrappers
C1_Witness ==
  /\ pc = "done"
  /\ \E t \in DOMAIN ops : /\ ops[t].live /\ ops[t].k = "par"
                           /\ ops[ops[t].par].k = "gpublock"

\* what operand v of an operation of launch l's body has to read once the
\* body is in the loops b (blocks) and t (threads)
Coordinate(ar, l, b, t, v) ==
  IF v[1] = "a" /\ v[2] = l
  THEN IF v[3] < NumDims THEN BArg(b, v[3])
       ELSE IF v[3] < 2 * NumDims THEN BArg(t, v[3] - NumDims)
       ELSE ar[l].args[v[3] - 2 * NumDims + 1]
  ELSE IF v[1] = "r" /\ v[2] \in KernelOps(ar, l)
  THEN CASE ar[v[2]].k = "bid" -> BArg(b, ar[v[2]].n)
         [] ar[v[2]].k = "tid" -> BArg(t, ar[v[2]].n)
         [] ar[v[2]].k = "gdim" -> ar[l].args[ar[v[2]].n + 1]
         [] ar[v[2]].k = "bdim" -> ar[l].args[NumDims + ar[v[2]].n + 1]
         [] OTHER -> v
  ELSE v

CoordinateKinds == {"bid", "tid", "gdim", "bdim", "barrier0"}

\* the kinds that the walks of lines 592-616 and 663-687 rewrite: what
\* becomes of them, and of what reads them, is not a matter of coordinates
OtherRewritten == {"alloca", "lalloca", "astore", "aload"}

ReadsRewritten(ar, v) == v[1] = "r" /\ ar[v[2]].k \in OtherRewritten

\* v names a coordinate of launch l: a body argument or an intrinsic
Stale(ar, l, v) ==
  \/ v[1] = "a" /\ v[2] = l
  \/ v[1] = "r" /\ v[2] \in KernelOps(ar, l) /\ ar[v[2]].k \in CoordinateKinds

CoordinatesResolved ==
  LET l == toHandle[cur]
      b == OuterLoop
      t == InnerLoop
      barriers == {i \in KernelOps(ops, l) : ops[i].k = "barrier0"}
      generic == NewOps(ops, ops', "pbarrier")
  IN /\ \A i \in KernelOps(ops, l) :
          IF ops[i].k \in CoordinateKinds THEN ~ops'[i].live
          ELSE /\ ops[i].k \notin OtherRewritten => ops'[i].live
               /\ ops'[i].live =>
                    /\ Len(ops'[i].args) = Len(ops[i].args)
                    /\ \A j \in 1..Len(ops[i].args) :
                         \/ ops'[i].args[j] = Coordinate(ops, l, b, t, ops[i].args[j])
                         \/ ReadsRewritten(ops, ops[i].args[j])
     \* nothing in the loops reads a coordinate of the launch any more
     /\ \A i \in DOMAIN ops' :
          (ops'[i].live /\ Inside(ops', b, i)) =>
            \A j \in 1..Len(ops'[i].args) : ~Stale(ops, l, ops'[i].args[j])
     /\ Cardinality(generic) = Cardinality(barriers)
     /\ \A g \in generic : /\ ops'[g].live /\ Inside(ops', t, g)
                           /\ ops'[g].args = <<BArg(t, 0), BArg(t, 1), BArg(t, 2)>>
     \* each generic barrier stands where its barrier intrinsic stood
     /\ \A x \in barriers : \E g \in generic :
          /\ ops'[g].par = ops'[x].par
          /\ \A y \in KernelOps(ops, l) :
               (ops'[y].live /\ ops[y].par = ops[x].par) =>
                 LET body == ops[ops[x].par].body
                     after == ops'[ops'[x].par].body
                 IN (IndexOf(body, y) < IndexOf(body, x))
                      = (IndexOf(after, y) < IndexOf(after, g))

\* C2: in the spliced kernel body block-index d (operation or body argument
\* d) reads the outer loop's induction variable d, thread-index d (operation
\* or argument 3+d) the inner loop's induction variable d, grid-dimension d
\* (operation or argument 6+d) the launch's grid-size operand d,
\* block-dimension d (operation or argument 9+d) its block-size operand d,
\* and every barrier intrinsic has become one generic barrier on the inner
\* loop's three induction variables in the order x, y, z.
C2_Coordinates == [][LowerStep => CoordinatesResolved]_vars

\* a lowered kernel that read the coordinates of dimension y both ways and
\* held a barrier
C2_Witness ==
  /\ pc = "done"
  /\ \E b \in DOMAIN ops : \E t \in DOMAIN ops : \E u \in DOMAIN ops :
       /\ ops[b].k = "par" /\ ops[t].k = "par" /\ Inside(ops, b, t)
       /\ Cardinality({w \in DOMAIN ops :
             /\ ops[w].live /\ ops[w].k = "use" /\ Inside(ops, t, w)
             /\ ops[w].args = <<BArg(b, 1), BArg(t, 1), ops[b].args[NumDims + 2],
                                ops[t].args[NumDims + 2]>>}) = 2
       /\ ops[u].live /\ ops[u].k = "pbarrier" /\ Inside(ops, t, u)

\* C3: when the pass has completed no launch operation remains
\* in the module.
C3_NoLaunchRemains ==
  pc = "done" => \A i \in DOMAIN ops : ~(ops[i].live /\ ops[i].k = "launch")

----------------------------------------------------------------------------
(* Properties of the inliner.                                              *)

\* the step of InlWrap: the call Top.call is wrapped and inlined
InlWrapStep == stack # <<>> /\ Top.st = "wrap" /\ Len(stack') < Len(stack)

\* the calls under root that name a function with a body
BodiedCalls(ar, root) ==
  {i \in SeqRange(Walk(ar, root)) : ar[i].k \in CallKinds /\ Resolve(ar, i) = "ok"}

\* C4, as claimed: when callInliner or LLVMcallInliner comes to inline a
\* call of a named function with a body, every call nested in the callee
\* has been inlined already, and what the step puts at the call site holds
\* no call of a function with a body.
C4_BottomUp ==
  [][InlWrapStep => /\ BodiedCalls(ops, Top.callee) = {}
                    /\ BodiedCalls(ops', Len(ops) + 1) = {}]_vars

\* call i was handed to an inliner, which wrapped it, and mlir::inlineCall
\* rejected it
Rejected(ar, i) ==
  /\ ar[i].live /\ ar[i].k \in CallKinds /\ Resolve(ar, i) = "ok"
  /\ ar[ar[i].par].k = "exreg"
  /\ ~InlineLegal(ar, i, Lookup(ar, ar[i].sym))

\* C4, amended: when an inliner comes to inline such a call, every call
\* nested in the callee has been handed to an inliner already, and the
\* only calls of functions with a body that the callee, and what the step
\* puts at the call site, hold are calls whose inlining was rejected.
C4_BottomUpButRejected ==
  [][InlWrapStep => /\ \A i \in BodiedCalls(ops, Top.callee) : Rejected(ops, i)
                    /\ \A i \in BodiedCalls(ops', Len(ops) + 1) : Rejected(ops', i)]_vars

\* the inliner is about to inline a call whose callee held a call that has
\* been inlined
C4_Witness ==
  /\ stack # <<>> /\ Top.st = "wrap"
  /\ \E i \in SeqRange(Walk(ops, Top.callee)) : ops[i].k = "ascope"

\* the returns of function f: func.return, llvm.return
ReturnKinds == {"ret", "lret"}
Returns(ar, f) == SelectSeq(ar[f].body, LAMBDA i : ar[i].k \in ReturnKinds)

\* value w of the new arena is the copy in x of value v of the old one
CopyOf(old, new, x, v, w) ==
  /\ w[1] = v[1] /\ w[3] = v[3] /\ w[2] > Len(old)
  /\ Inside(new, x, w[2])
  /\ new[w[2]].k = old[v[2]].k /\ new[w[2]].n = old[v[2]].n

\* the call site after the step: the call is gone, the allocation scope
\* stands in its place and holds the execute region and the scope's return,
\* the execute region holds the callee's body and the yield, and what read
\* the call's results reads the scope's
CallSiteShape(c, f, s, x) ==
  LET p == ops[c].par
      nr == ops[c].nr
      y == Last(ops'[x].body)
  IN /\ ~ops'[c].live
     /\ \A i \in DOMAIN ops' : ops'[i].live => c \notin SeqRange(ops'[i].body)
     /\ ops'[s].k = "ascope" /\ ops'[s].live /\ ops'[s].par = p
     /\ ops'[p].body = [j \in 1..Len(ops[p].body) |->
                          IF ops[p].body[j] = c THEN s ELSE ops[p].body[j]]
     /\ Len(ops'[s].body) = 2 /\ ops'[s].body[1] = x
     /\ ops'[x].k = "exreg" /\ ops'[x].live
     /\ ops'[ops'[s].body[2]].k = "ascope_ret"
     /\ ops'[ops'[s].body[2]].args = Results(x, nr)
     /\ ops'[y].k = "yield"
     /\ \A i \in SeqRange(Walk(ops, ModuleId)) \ {c} :
          ops'[i].args = [j \in 1..Len(ops[i].args) |->
                            IF ops[i].args[j][1] = "r" /\ ops[i].args[j][2] = c
                            THEN Res(s, ops[i].args[j][3]) ELSE ops[i].args[j]]

\* every return of the callee is a branch in the execute region, with the
\* return's operands, to the exit block whose arguments the yield hands on
ReturnsBranch(c, f, x) ==
  LET rets == Returns(ops, f)
      brs == SelectSeq(ops'[x].body, LAMBDA i : ops'[i].k = "br")
      y == Last(ops'[x].body)
  IN /\ Len(brs) = Len(rets)
     /\ \A i \in SeqRange(ops'[x].body) : ops'[i].k \notin ReturnKinds
     /\ \A j \in 1..Len(rets) :
          /\ Len(ops'[brs[j]].args) = Len(ops[rets[j]].args)
          /\ \A a \in 1..Len(ops[rets[j]].args) :
               CopyOf(ops, ops', x, ops[rets[j]].args[a], ops'[brs[j]].args[a])
     /\ ops'[y].args = [i \in 1..ops[c].nr |-> XArg(x, i - 1)]

Inlines == InlWrapStep /\ InlineLegal(ops, Top.call, Top.callee)

\* C5: after a successful inlining the call is gone, the call site is an
\* allocation scope holding one execute region with the inlined body, every
\* inlined return is a branch to one shared exit block with the return's
\* operands, and every former use of the call's results reads the scope's
\* results.
C5_ReturnsBranch ==
  [][Inlines => /\ CallSiteShape(Top.call, Top.callee, Len(ops) + 1, Len(ops) + 2)
                /\ ReturnsBranch(Top.call, Top.callee, Len(ops) + 2)]_vars

----------------------------------------------------------------------------
(* Properties of the inlining closure.                                     *)

\* the direct calls in the module of a function among fs
CallsTo(ar, fs) ==
  {i \in SeqRange(Walk(ar, ModuleId)) :
     ar[i].k \in CallKinds /\ ar[i].sym # "" /\ Lookup(ar, ar[i].sym) \in fs}

\* the loop of lines 400-416 has run to its end
Applied == pc = "apply" /\ Idle /\ cur > Len(toinl)

\* every call site handed to an inliner has been inlined: none was rejected
AllInlined(ar) == \A i \in DOMAIN ar : ~Rejected(ar, i)

OnHost(ar, i) == ParentOfType(ar, i, {"launch"}) = 0

\* the functions that hold an operation of ks, or a call of a function of
\* fs, outside every launch
HostHolders(ar, ks, fs) ==
  {ParentOfType(ar, i, FuncKinds) :
     i \in {j \in SeqRange(WalkList(ar, ar[ModuleId].body)) :
              /\ OnHost(ar, j)
              /\ \/ ar[j].k \in ks
                 \/ j \in CallsTo(ar, fs)}}

\* the functions from which a seeded intrinsic is reached along calls that
\* are in no launch
RECURSIVE ReachIntrinsic(_, _)
ReachIntrinsic(ar, fs) ==
  LET more == HostHolders(ar, SeqRange(SeedKinds), fs)
  IN IF more \subseteq fs THEN fs ELSE ReachIntrinsic(ar, fs \cup more)

\* the functions called from a kernel body, directly or along calls that
\* are in no launch
RECURSIVE ReachedFromKernel(_, _)
ReachedFromKernel(ar, fs) ==
  LET more == {Lookup(ar, ar[i].sym) :
                 i \in {j \in CallsTo(ar, SeqRange(ar[ModuleId].body)) :
                          \/ ~OnHost(ar, j)
                          \/ ParentOfType(ar, j, FuncKinds) \in fs}}
  IN IF more \subseteq fs THEN fs ELSE ReachedFromKernel(ar, fs \cup more)

OnlyDirectCalls(ar) ==
  \A i \in SeqRange(Walk(ar, ModuleId)) :
    ar[i].k # "getfunc" /\ (ar[i].k \in CallKinds => ar[i].sym # "")

\* the loop of lines 384-399 has run to its end
Closed == pc = "closure" /\ inlineOps = <<>>

\* C7, as claimed: with direct calls only, the to-inline set is the set of
\* the functions on a call path from a seeded intrinsic to a kernel body.
C7_OnPathOnly ==
  (Closed /\ OnlyDirectCalls(ops)) =>
    SeqRange(toinl) = ReachIntrinsic(ops, {}) \cap ReachedFromKernel(ops, {})

\* C7, amended: with direct calls only, the to-inline set is the set of
\* the functions from which a seeded intrinsic is reached along calls that
\* lie in no launch: those holding such an intrinsic outside every launch
\* and, in turn, those holding outside every launch a call of a function of
\* the set, whether or not a kernel body calls them.
C7_Closure ==
  (Closed /\ OnlyDirectCalls(ops)) => SeqRange(toinl) = ReachIntrinsic(ops, {})

\* the set holds a function that no kernel body reaches
C7_Witness ==
  /\ Closed /\ OnlyDirectCalls(ops)
  /\ SeqRange(toinl) \ ReachedFromKernel(ops, {}) # {}
  /\ SeqRange(toinl) \cap ReachedFromKernel(ops, {}) # {}

Finished == pc \in {"done", "crashed"}

\* C8: every work-list runs empty and the pass comes to its end.
C8_Terminates == <>Finished

----------------------------------------------------------------------------
(* Properties of the declaration routines.                                 *)

\* the external declarations of a name in the module
Declarations(ar, name) == SelectSeq(Symbols(ar, name), LAMBDA i : ar[i].body = <<>>)

\* what thread t's finished calls of a routine returned
Returned(t, routine) ==
  SelectSeq(threads[t].rets, LAMBDA r : r.routine = routine)

\* call c is a call of declaration d
Targets(ar, c, d) ==
  /\ ar[c].sym = ar[d].sym
  /\ Lookup(ar, ar[c].sym) = d
  /\ ar[c].k = (IF ar[d].k = "func" THEN "call" ELSE "lcall")

\* C9: once a thread has called GetOrCreateFreeFunction twice, the module
\* holds exactly one external declaration named free and the calls returned
\* the same declaration; once it has called callMalloc twice, the module
\* holds exactly one declaration named malloc and the emitted calls are
\* calls of it.
C9_Idempotent ==
  \A t \in Threads :
    /\ Len(Returned(t, "free")) >= 2 =>
         /\ Len(Declarations(ops, "free")) = 1
         /\ \A i, j \in 1..Len(Returned(t, "free")) :
              Returned(t, "free")[i].val = Returned(t, "free")[j].val
    /\ Len(Returned(t, "malloc")) >= 2 =>
         /\ Len(Declarations(ops, "malloc")) = 1
         /\ \A i \in 1..Len(Returned(t, "malloc")) :
              Targets(ops, Returned(t, "malloc")[i].val, Head(Declarations(ops, "malloc")))

\* the threads inside the critical section of a routine
InMalloc == {t \in Threads : threads[t].pc \in {"m_func", "m_llvm", "m_create", "m_call", "m_ret"}}
InFree == {t \in Threads : threads[t].pc \in {"f_llvm", "f_create", "f_ret"}}

\* C10: in every interleaving at most one thread is between the lookup and
\* the return of callMalloc, at most one between those of
\* GetOrCreateFreeFunction, and the module never holds more than one
\* declaration named malloc or more than one named free.
C10_Atomic ==
  /\ Cardinality(InMalloc) <= 1
  /\ Cardinality(InFree) <= 1
  /\ Len(Declarations(ops, "malloc")) <= 1
  /\ Len(Declarations(ops, "free")) <= 1

----------------------------------------------------------------------------
(* Properties of the kernel's memory operations.                           *)

AllocaKinds == {"alloca", "lalloca"}

\* the cast that stands for a replaced allocation of kind k
CastOf(k) == IF k = "alloca" THEN "mcast" ELSE "ascast"

\* the stack allocations of launch l's body tagged with address space 5
Tagged(ar, l) == {i \in KernelOps(ar, l) : ar[i].k \in AllocaKinds /\ ar[i].n = 5}

\* the live operations that read value v
Readers(ar, v) == {u \in DOMAIN ar : ar[u].live /\ v \in SeqRange(ar[u].args)}

\* a, created by the step, is an allocation in the default address space
\* that stands in the body of loop b in front of everything the step did not
\* hoist there, outside loop t
HoistedTo(ar, a, b, t) ==
  /\ ar[a].live /\ ar[a].n = 0 /\ ar[a].par = b /\ ~Inside(ar, t, a)
  /\ \A j \in 1..IndexOf(ar[b].body, a) :
       ar[ar[b].body[j]].k \in AllocaKinds \cup {"mcast", "ascast"}

AllocasHoisted ==
  LET l == toHandle[cur]
      b == OuterLoop
      t == InnerLoop
  IN /\ \A k \in AllocaKinds :
          Cardinality(NewOps(ops, ops', k)) = Cardinality({i \in Tagged(ops, l) : ops[i].k = k})
     /\ \A i \in KernelOps(ops, l) :
          (ops[i].k \in AllocaKinds /\ i \notin Tagged(ops, l)) =>
            ops'[i].live /\ ops'[i].n = ops[i].n /\ Inside(ops', t, i)
     /\ \A i \in Tagged(ops, l) :
          /\ ~ops'[i].live
          /\ Readers(ops', Res(i, 0)) = {}
          /\ \E a \in NewOps(ops, ops', ops[i].k) :
             \E c \in NewOps(ops, ops', CastOf(ops[i].k)) :
               /\ HoistedTo(ops', a, b, t)
               /\ ops'[c].live /\ ops'[c].args = <<Res(a, 0)>>
               /\ ops'[c].par = b /\ ~Inside(ops', t, c)
               /\ Readers(ops', Res(a, 0)) = {c}
               /\ \A u \in Readers(ops, Res(i, 0)) :
                    ops'[u].live =>
                      ops'[u].args = [j \in 1..Len(ops[u].args) |->
                                        IF ops[u].args[j] = Res(i, 0) THEN Res(c, 0)
                                        ELSE ops'[u].args[j]]

\* C11: lowering a launch replaces every stack allocation of the kernel body
\* (memref or low-level) tagged with address space 5 by an allocation in the
\* default address space at the start of the outer loop's body, outside the
\* inner loop; every former use reads the result of the one address-space
\* cast of the new allocation, and no use reads the erased allocation.
C11_AllocasHoisted == [][LowerStep => AllocasHoisted]_vars

\* a lowered kernel whose tagged memref allocation and tagged low-level
\* allocation are both read, through their casts, by one user in the inner
\* loop
C11_Witness ==
  /\ pc = "done"
  /\ \E u \in DOMAIN ops : \E m \in DOMAIN ops : \E c \in DOMAIN ops :
       /\ ops[u].live /\ ops[u].k = "use"
       /\ ops[m].live /\ ops[m].k = "mcast" /\ Res(m, 0) \in SeqRange(ops[u].args)
       /\ ops[c].live /\ ops[c].k = "ascast" /\ Res(c, 0) \in SeqRange(ops[u].args)
       /\ ops[ops[m].par].k = "par" /\ ops[ops[c].par].k = "par"
       /\ ops[m].par = ops[c].par
       /\ ParentOfType(ops, u, {"par"}) # ops[m].par

AffineKinds == {"astore", "aload"}

\* what operand v of an operation of launch l's body reads once the walks
\* before those of the affine accesses are through: a coordinate, the cast
\* of a hoisted allocation, or v itself
AfterWalks(ar, new, l, b, t, v) ==
  IF v[1] = "r" /\ v[2] \in Tagged(ar, l)
  THEN Res(CHOOSE c \in NewOps(ar, new, CastOf(ar[v[2]].k)) :
             new[new[c].args[1][2]].k = ar[v[2]].k, 0)
  ELSE Coordinate(ar, l, b, t, v)

\* the operands of access i that are not map operands: the stored value and
\* the memory, or the memory
Fixed(ar, i) == SubSeq(ar[i].args, 1, IF ar[i].k = "astore" THEN 2 ELSE 1)
MapOperands(ar, i) == SubSeq(ar[i].args, Len(Fixed(ar, i)) + 1, Len(ar[i].args))

\* s is the ordinary access that stands for affine access i, on index
\* computations that stand just before it
Expanded(i, s, l, b, t) ==
  LET now(vs) == [j \in 1..Len(vs) |-> AfterWalks(ops, ops', l, b, t, vs[j])]
      block == ops'[ops'[s].par].body
      at == IndexOf(block, s)
      k == ops[i].n
  IN /\ ops'[s].live /\ ops'[s].par = ops'[i].par /\ ops'[s].nr = ops[i].nr
     /\ Len(ops'[s].args) = Len(Fixed(ops, i)) + k
     /\ SubSeq(ops'[s].args, 1, Len(Fixed(ops, i))) = now(Fixed(ops, i))
     /\ at > k
     /\ \A j \in 1..k :
          LET p == block[at - k - 1 + j]
          IN /\ ops'[s].args[Len(Fixed(ops, i)) + j] = Res(p, 0)
             /\ ops'[p].live /\ ops'[p].k = "apply"
             /\ ops'[p].sym = ops[i].sym /\ ops'[p].n = j - 1
             /\ ops'[p].args = now(MapOperands(ops, i))
     /\ \A u \in Readers(ops, Res(i, 0)) :
          \A j \in 1..Len(ops[u].args) :
            ops[u].args[j] = Res(i, 0) => ops'[u].args[j] = Res(s, 0)

RECURSIVE Sum(_, _)
Sum(f, D) == IF D = {} THEN 0 ELSE LET x == CHOOSE x \in D : TRUE IN f[x] + Sum(f, D \ {x})

AffineExpanded ==
  LET l == toHandle[cur]
      b == OuterLoop
      t == InnerLoop
      accesses == {i \in KernelOps(ops, l) : ops[i].k \in AffineKinds}
  IN /\ \A i \in accesses :
          /\ ~ops'[i].live
          /\ \E s \in NewOps(ops, ops', IF ops[i].k = "astore" THEN "store" ELSE "load") :
               Expanded(i, s, l, b, t)
     /\ Cardinality(NewOps(ops, ops', "apply")) = Sum([i \in accesses |-> ops[i].n], accesses)
     /\ Cardinality(NewOps(ops, ops', "store") \cup NewOps(ops, ops', "load"))
          = Cardinality(accesses)
     /\ \A i \in DOMAIN ops' :
          (ops'[i].live /\ Inside(ops', t, i)) => ops'[i].k \notin AffineKinds

\* C12: lowering a launch replaces every affine load or store of the kernel
\* whose map has k results by exactly k index computations, the i-th
\* applying the map's i-th result expression to the map operands, and an
\* ordinary load or store of the same memory (and the same stored value) on
\* these k indices in order; no affine load or store is left in the thread
\* loop.
C12_AffineExpanded == [][LowerStep => AffineExpanded]_vars

\* a lowered kernel with an ordinary store on the indices of two index
\* computations, slices 0 and 1 of one map
C12_Witness ==
  /\ pc = "done"
  /\ \E s \in DOMAIN ops :
       /\ ops[s].live /\ ops[s].k = "store" /\ Len(ops[s].args) = 4
       /\ \A j \in 3..4 : /\ ops[s].args[j][1] = "r"
                          /\ ops[ops[s].args[j][2]].k = "apply"
                          /\ ops[ops[s].args[j][2]].n = j - 3
                          /\ ops[ops[s].args[j][2]].live


Intrinsics(ar) == {i \in DOMAIN ar : ar[i].live /\ ar[i].k \in CoordinateKinds}

Loops(ar) == {p \in DOMAIN ar : ar[p].live /\ ar[p].k = "par"}

\* C19, as claimed: when the pass has completed, no thread-index,
\* block-index, grid-dimension, block-dimension or barrier intrinsic is
\* left anywhere in the module, the bodies of device functions whose calls
\* were inlined and the code outside any launch included.
C19_NoIntrinsicAnywhere == pc = "done" => Intrinsics(ops) = {}

\* C19, amended: when the pass has completed, no such intrinsic is left
\* inside a parallel loop.
C19_NoIntrinsicInLoops ==
  pc = "done" => \A i \in Intrinsics(ops) : \A p \in Loops(ops) : ~Inside(ops, p, i)

\* a lowered kernel holds a generic barrier where a barrier intrinsic
\* stood, while a barrier intrinsic outside the loops is still there
C19_Witness ==
  /\ pc = "done"
  /\ \E p \in Loops(ops) : \E u \in DOMAIN ops :
       ops[u].live /\ ops[u].k = "pbarrier" /\ Inside(ops, p, u)
  /\ \E i \in Intrinsics(ops) : ops[i].k = "barrier0"

----------------------------------------------------------------------------
(* Failed inlining.                                                        *)

\* an activation of an inliner ends and its call is still there
InliningFails ==
  /\ stack # <<>> /\ stack' = Front(stack)
  /\ ops'[Top.call].live

\* call c is where it was, as it was, and every operand reads what it read
CallUntouched(c) ==
  /\ ops'[c] = ops[c]
  /\ ops'[ops[c].par].body = ops[ops[c].par].body
  /\ \A u \in DOMAIN ops : ops'[u].args = ops[u].args

\* call c, with its operands, has been moved into a new execute region
\* that yields its results, alone in a new allocation scope that stands
\* where c stood and returns the region's results; what read c's results
\* reads the scope's results
CallWrapped(c) ==
  \E s \in NewOps(ops, ops', "ascope") : \E x \in NewOps(ops, ops', "exreg") :
  \E y \in NewOps(ops, ops', "yield") : \E r \in NewOps(ops, ops', "ascope_ret") :
    /\ Len(ops') = Len(ops) + 4
    /\ ops'[c] = [ops[c] EXCEPT !.par = x]
    /\ ops'[x].body = <<c, y>> /\ ops'[y].args = Results(c, ops[c].nr)
    /\ ops'[x].par = s /\ ops'[x].nr = ops[c].nr
    /\ ops'[s].body = <<x, r>> /\ ops'[r].args = Results(x, ops[c].nr)
    /\ ops'[s].par = ops[c].par /\ ops'[s].nr = ops[c].nr
    /\ ops'[ops[c].par].body = [j \in 1..Len(ops[ops[c].par].body) |->
                                 IF ops[ops[c].par].body[j] = c THEN s
                                 ELSE ops[ops[c].par].body[j]]
    /\ \A u \in DOMAIN ops \ {c} :
         ops'[u].args = [j \in 1..Len(ops[u].args) |->
                           IF ops[u].args[j][1] = "r" /\ ops[u].args[j][2] = c
                           THEN Res(s, ops[u].args[j][3]) ELSE ops[u].args[j]]

----------------------------------------------------------------------------
(* Callees that do not resolve.                                            *)

\* an inliner is at a call whose callee names no callable operation
AtUnresolved == stack # <<>> /\ Top.st = "enter" /\ Resolve(ops, Top.call) = "null"

\* C21: when the callee symbol of a call resolves to no callable operation
\* (the name is undefined, or names something that is not callable),
\* callInliner and LLVMcallInliner leave the call as it is and return; the
\* pass does not abort.
C21_Unresolved ==
  [][AtUnresolved => /\ ops' = ops
                     /\ stack' = Front(stack)
                     /\ pc' # "crashed"]_vars

----------------------------------------------------------------------------
(* The seeds of the closure.                                               *)

\* the functions that hold an operation of a kind of ks outside every launch
Holders(ar, ks) ==
  {ParentOfType(ar, i, FuncKinds) :
     i \in {j \in SeqRange(Walk(ar, ModuleId)) : ar[j].k \in ks /\ OnHost(ar, j)}}

\* a step of the closure that adds a function to the to-inline set
Adds == pc = "closure" /\ toinl' # toinl

\* the call sites of the function added are on the work-list
SitesQueued ==
  \A m \in SeqRange(Users(ops, Last(toinl'))) :
    ops[m].k \in CallKinds => m \in SeqRange(inlineOps')

\* C22, as claimed: a function that holds a thread-index, block-dimension,
\* grid-dimension or barrier intrinsic outside a launch is added to the
\* to-inline set, and its call sites are queued.
C22_FourKinds ==
  /\ [](Closed => Holders(ops, {"tid", "bdim", "gdim", "barrier0"}) \subseteq SeqRange(toinl))
  /\ [][Adds => SitesQueued]_vars

\* C22, amended: a function that holds a thread-index, grid-dimension or
\* barrier intrinsic outside a launch is added to the to-inline set, and
\* its call sites are queued; a block-dimension intrinsic is no seed.
C22_ThreeKinds ==
  /\ [](Closed => Holders(ops, {"tid", "gdim", "barrier0"}) \subseteq SeqRange(toinl))
  /\ [][Adds => SitesQueued]_vars

\* a called function holds a grid-dimension intrinsic and is in the set,
\* another holds a block-dimension intrinsic and is not
C22_Witness ==
  /\ Closed
  /\ \E f \in Holders(ops, {"gdim"}) : f \in SeqRange(toinl) /\ Users(ops, f) # <<>>
  /\ \E g \in Holders(ops, {"bdim"}) : g \notin SeqRange(toinl) /\ Users(ops, g) # <<>>

----------------------------------------------------------------------------
(* Operations of interest inside a launch.                                 *)

\* one iteration of the closure loop, on the operation at the work-list's end
Pops == pc = "closure" /\ inlineOps # <<>> /\ inlineOps' # inlineOps

\* the operation lies in a launch that its function holds
InOwnLaunch(ar, op) ==
  LET lop == ParentOfType(ar, op, {"launch"})
  IN lop # 0 /\ ~IsAncestor(ar, lop, ParentOfType(ar, op, FuncKinds))

KernelExempt ==
  Pops =>
    IF InOwnLaunch(ops, Last(inlineOps))
    THEN /\ toinl' = toinl
         /\ inlineOps' = Front(inlineOps)
         /\ toFollowOps' = toFollowOps
    ELSE ParentOfType(ops, Last(inlineOps), FuncKinds) \in SeqRange(toinl')

\* C23: an operation of interest that lies inside a launch held by function
\* F does not add F to the to-inline set and queues none of F's call sites;
\* a function is added only for an operation of interest outside every
\* launch, or in a launch that encloses the function.
C23_KernelExempt == [][KernelExempt]_vars

\* a called function holds a seeded intrinsic only inside its own launch
\* and is not in the set, while another function is
C23_Witness ==
  /\ Closed /\ toinl # <<>>
  /\ \E i \in SeqRange(Walk(ops, ModuleId)) :
       /\ ops[i].k \in SeqRange(SeedKinds) /\ InOwnLaunch(ops, i)
       /\ ParentOfType(ops, i, FuncKinds) \notin SeqRange(toinl)
       /\ Users(ops, ParentOfType(ops, i, FuncKinds)) # <<>>

----------------------------------------------------------------------------
(* Recursion.                                                              *)

\* the functions that function f calls, at any depth of its body
Callees(ar, f) ==
  {Lookup(ar, ar[i].sym) :
     i \in {j \in SeqRange(Walk(ar, f)) : ar[j].k \in CallKinds /\ Resolve(ar, j) = "ok"}}

RECURSIVE Reach(_, _)
Reach(ar, fs) ==
  LET more == UNION {Callees(ar, f) : f \in fs}
  IN IF more \subseteq fs THEN fs ELSE Reach(ar, fs \cup more)

\* f calls itself, directly or through other functions
CallsItself(ar, f) == f \in Reach(ar, Callees(ar, f))

\* an inliner has resolved the callee of its call, and the callee calls itself
InlinerInCycle ==
  stack # <<>> /\ Top.st # "enter" /\ CallsItself(ops, Top.callee)

\* the closure loop is at a call site that lies in a function that calls
\* itself
ClosureInCycle ==
  /\ pc = "closure" /\ inlineOps # <<>>
  /\ ops[Last(inlineOps)].k \in CallKinds
  /\ OnHost(ops, Last(inlineOps))
  /\ CallsItself(ops, ParentOfType(ops, Last(inlineOps), FuncKinds))

\* C24: nothing guards against recursion: once an inliner is applied to a
\* call whose callee calls itself, directly or through other functions, or
\* the closure work-list holds a call site on a cycle of calls, the pass
\* never comes to its end.
C24_NeverCompletes == []((InlinerInCycle \/ ClosureInCycle) => [](pc # "done"))

\* the inliner is in activations of one and the same call, as deep as the
\* call stack goes
C24_Witness ==
  /\ Len(stack) = MaxDepth
  /\ \E i \in 1..Len(stack) : \E j \in 1..Len(stack) :
       i < j /\ stack[i].st # "enter" /\ stack[i].callee = stack[j].callee
             /\ stack[i + 1].call = stack[j].call

----------------------------------------------------------------------------
(* Scope markers.                                                          *)

MarkerKinds == {"gpuwrap", "gpublock", "gputhread", "noop"}

\* the markers the step creates, as the pairs of their kind and tag
Markers == {<<ops'[i].k, ops'[i].sym>> : i \in UNION {NewOps(ops, ops', k) : k \in MarkerKinds}}

Requested ==
  (IF opts.wrap THEN {<<"gpuwrap", "">>} ELSE {})
    \cup (CASE opts.mode = "BlockThreadWrappers" -> {<<"gpublock", "">>, <<"gputhread", "">>}
            [] opts.mode = "BlockThreadNoops" -> {<<"noop", "gpu_kernel.block">>,
                                                  <<"noop", "gpu_kernel.thread">>}
            [] opts.mode = "ThreadNoop" -> {<<"noop", "gpu_kernel.thread_only">>}
            [] OTHER -> {})

\* each marker once, live, where it belongs: the outer wrapper around the
\* outer loop, the block marker in the outer loop and around or before the
\* inner loop, the thread marker in the inner loop
MarkersAsRequested ==
  /\ Markers = Requested
  /\ \A k \in MarkerKinds : \A i \in NewOps(ops, ops', k) : \A j \in NewOps(ops, ops', k) :
       ops'[i].sym = ops'[j].sym => i = j
  /\ \A k \in MarkerKinds : \A i \in NewOps(ops, ops', k) :
       /\ ops'[i].live
       /\ CASE k = "gpuwrap" -> Inside(ops', i, OuterLoop)
            [] k = "gpublock" -> ops'[i].par = OuterLoop /\ Inside(ops', i, InnerLoop)
            [] k = "gputhread" -> ops'[i].par = InnerLoop
            [] ops'[i].sym = "gpu_kernel.block" ->
                 ops'[i].par = OuterLoop /\ ~Inside(ops', InnerLoop, i)
            [] OTHER -> ops'[i].par = InnerLoop

\* C25: the lowered nest holds the block-scope and thread-scope wrappers
\* iff the mode is BlockThreadWrappers, the no-ops tagged gpu_kernel.block
\* and gpu_kernel.thread iff it is BlockThreadNoops, one no-op tagged
\* gpu_kernel.thread_only iff it is ThreadNoop, the outer GPU wrapper iff
\* wrapParallelOps is set, and no marker at all when none is requested.
C25_Markers == [][LowerStep => MarkersAsRequested]_vars

\* a nest with the outer wrapper and the single thread-only no-op
C25_Witness ==
  /\ pc = "done" /\ opts.wrap /\ opts.mode = "ThreadNoop"
  /\ \E w \in DOMAIN ops : \E n \in DOMAIN ops :
       /\ ops[w].live /\ ops[w].k = "gpuwrap"
       /\ ops[n].live /\ ops[n].k = "noop" /\ ops[n].sym = "gpu_kernel.thread_only"
       /\ Inside(ops, w, n)
----------------------------------------------------------------------------
(* Properties of the passes that retarget the runtime's calls.             *)

\* the callback of policy p runs for a call of one of the names
Visits(p, names) ==
  /\ pc = p /\ pc' = p /\ todo # <<>> /\ todo' = Tail(todo)
  /\ ops[Head(todo)].sym \in names

\* v is the result of an operation of kind k that the step creates
Created(v, k) == v[1] = "r" /\ v[2] \in NewOps(ops, ops', k) /\ ops'[v[2]].live

\* v is a constant 0 of width w that the step creates
Zero(v, w) == Created(v, "cint") /\ ops'[v[2]].sym = "zero" /\ ops'[v[2]].n = w

\* every former use of call c's result reads one constant 0 of the result's
\* width, and the call is erased
Succeeds(c) ==
  /\ ~ops'[c].live
  /\ Readers(ops', Res(c, 0)) = {}
  /\ \E z \in NewOps(ops, ops', "cint") :
       /\ Zero(Res(z, 0), ops[c].n)
       /\ \A u \in Readers(ops, Res(c, 0)) \ {c} :
            ops'[u].args = [j \in 1..Len(ops[u].args) |->
                              IF ops[u].args[j] = Res(c, 0) THEN Res(z, 0)
                              ELSE ops[u].args[j]]

\* got is v as a raw pointer: a view of v when v is a memref, v otherwise
PointerView(v, got) ==
  IF IsMemRef(ops, v)
  THEN Created(got, "m2p") /\ ops'[got[2]].args = <<v>>
  ELSE got = v

MemcpyReplaced ==
  LET c == Head(todo)
      memrefs == {i \in 0..1 : IsMemRef(ops, Operand(ops, c, i))}
  IN /\ Succeeds(c)
     /\ Cardinality(NewOps(ops, ops', "m2p")) = Cardinality(memrefs)
     /\ Cardinality(NewOps(ops, ops', "memcpy")) = 1
     /\ \A m \in NewOps(ops, ops', "memcpy") :
          /\ ops'[m].live /\ ops'[m].par = ops[c].par
          /\ Len(ops'[m].args) = 4
          /\ PointerView(Operand(ops, c, 0), ops'[m].args[1])
          /\ PointerView(Operand(ops, c, 1), ops'[m].args[2])
          /\ ops'[m].args[3] = Operand(ops, c, 2)
          /\ Zero(ops'[m].args[4], 1)

\* C13: under the CPU policy a call of cudaMemcpy or cudaMemcpyAsync on
\* (dst, src, n) gives way to exactly one memory-copy intrinsic on
\* (dst', src', n, false), dst' and src' being raw-pointer views of dst and
\* src where these are memrefs and dst and src themselves otherwise; the
\* call's result is replaced by a constant 0 of its type, the call erased.
C13_Memcpy ==
  [][Visits("cpu", {"cudaMemcpy", "cudaMemcpyAsync"}) => MemcpyReplaced]_vars

\* the pass is through, and a memory copy reads a raw-pointer view of a
\* memref and a pointer as it was
C13_Witness ==
  /\ pc = "done"
  /\ \E m \in DOMAIN ops :
       /\ ops[m].live /\ ops[m].k = "memcpy"
       /\ ops[ops[m].args[1][2]].k = "m2p"
       /\ ops[ops[m].args[2][2]].k = "null"

\* the unsigned number that bits b write, as its digits without leading zeros
RECURSIVE Unsigned(_)
Unsigned(b) == IF b = <<>> THEN <<>> ELSE IF Head(b) = 0 THEN Unsigned(Tail(b)) ELSE b

MallocReplaced ==
  LET c == Head(todo)
      out == Operand(ops, c, 0)
      size == Operand(ops, c, 1)
      mallocs == {m \in NewOps(ops, ops', "call") \cup NewOps(ops, ops', "lcall") :
                    ops'[m].sym = "malloc"}
  IN /\ Succeeds(c)
     /\ Cardinality(mallocs) = 1
     /\ \A m \in mallocs :
          /\ ops'[m].live /\ Len(ops'[m].args) = 1
          /\ Len(Eval(ops', ops'[m].args[1])) = 64
          /\ Unsigned(Eval(ops', ops'[m].args[1])) = Unsigned(Eval(ops, size))
          /\ Len(Eval(ops, size)) = 64 => ops'[m].args[1] = size
          /\ Len(Eval(ops, size)) < 64 =>
               Created(ops'[m].args[1], "extui") /\ ops'[ops'[m].args[1][2]].args = <<size>>
          /\ Cardinality(NewOps(ops, ops', "lstore")) = 1
          /\ \A s \in NewOps(ops, ops', "lstore") :
               ops'[s].live /\ ops'[s].args = <<Res(m, 0), out>>

\* C14: under the CPU policy a call of cudaMalloc or cudaMallocHost on
\* (out, size) hands malloc the size zero-extended to 64 bits when it is
\* narrower and as it is when it has 64 bits, so that malloc gets the
\* unsigned value of size at every width; the pointer malloc returns is
\* stored through out and the call's result is replaced by the constant 0.
C14_Malloc == [][Visits("cpu", {"cudaMalloc", "cudaMallocHost"}) => MallocReplaced]_vars

\* the pass is through, and malloc is called on the extension of a narrow
\* size whose top bit is set
C14_Witness ==
  /\ pc = "done"
  /\ \E m \in DOMAIN ops : \E x \in DOMAIN ops :
       /\ ops[m].live /\ ops[m].k \in CallKinds /\ ops[m].sym = "malloc"
       /\ ops[m].args = <<Res(x, 0)>> /\ ops[x].live /\ ops[x].k = "extui"
       /\ ops[ops[x].args[1][2]].sym \in {"msb", "ones"}
       /\ ops[ops[x].args[1][2]].n < 64

\* the names the CPU policy rewrites
CPUNames ==
  {"cudaMemcpy", "cudaMemcpyAsync", "cudaMemcpyToSymbol", "cudaMemset", "cudaMalloc",
   "cudaMallocHost", "cudaFree", "cudaFreeHost", "cudaDeviceSynchronize",
   "cudaThreadSynchronize", "cudaGetLastError", "cudaPeekAtLastError"}

\* the live operations with an operand that is a result of an erased one
Dangling(ar) ==
  {u \in DOMAIN ar : /\ ar[u].live
                     /\ \E a \in SeqRange(ar[u].args) : a[1] = "r" /\ ~ar[a[2]].live}

\* C15: for every call the CPU policy rewrites, every use of the call's
\* result is redirected to a new constant 0 of the result's width and the
\* call is erased, and at no time does an operand refer to the result of an
\* erased call.
C15_Redirected ==
  [][(Visits("cpu", CPUNames) => Succeeds(Head(todo))) /\ Dangling(ops') = {}]_vars

\* the pass is through, two calls are erased, and a former user of a call
\* with a 64 bit result reads a constant 0 of 64 bits
C15_Witness ==
  /\ pc = "done"
  /\ Cardinality({c \in DOMAIN ops : ops[c].k \in CallKinds /\ ~ops[c].live}) = 2
  /\ \E u \in DOMAIN ops :
       /\ ops[u].live /\ ops[u].k = "use"
       /\ ops[ops[u].args[1][2]].k = "cint" /\ ops[ops[u].args[1][2]].n = 64
       /\ ops[ops[u].args[1][2]].sym = "zero"

\* the policy does not know the name: it is not in the dispatch table of
\* the CPU policy, not in the allow-list of the vendor-rename policy
Unrecognized(p, name) == IF p = "cpu" THEN name \notin CPUNames ELSE name \notin CudartSymbols

\* the operations of a block that the step keeps, in their order
Kept(ar, p) == SelectSeq(ar[p].body, LAMBDA i : i <= Len(ops) /\ ops'[i].live)

\* what operand v may read after the step: v, or also, if redirected holds
\* and v was the result of a call that the step erases, the constant 0 that
\* took its place
Reads(redirected, v, got) ==
  \/ got = v
  \/ /\ redirected /\ v[1] = "r" /\ ops[v[2]].k \in CallKinds /\ ~ops'[v[2]].live
     /\ Zero(got, ops[v[2]].n)

\* a step of a pass leaves every call alone that the policy does not know,
\* and visiting one changes nothing
LeftAlone(redirected) ==
  pc \in Policies =>
    /\ \A u \in DOMAIN ops :
         (ops[u].live /\ ops[u].k \in CallKinds /\ Unrecognized(pc, ops[u].sym)) =>
           /\ ops'[u].live /\ ops'[u].k = ops[u].k /\ ops'[u].sym = ops[u].sym
           /\ ops'[u].par = ops[u].par
           /\ Kept(ops', ops[u].par) = Kept(ops, ops[u].par)
           /\ Len(ops'[u].args) = Len(ops[u].args)
           /\ \A j \in 1..Len(ops[u].args) : Reads(redirected, ops[u].args[j], ops'[u].args[j])
           /\ Readers(ops', Res(u, 0)) = Readers(ops, Res(u, 0))
    /\ (todo # <<>> /\ todo' = Tail(todo) /\ Unrecognized(pc, ops[Head(todo)].sym)) =>
         ops' = ops

HipEquivalent == {n \in CudartSymbols : IsHipCallEquivalent(n)}

Renamed ==
  pc = "hip" =>
    /\ (Visits("hip", HipEquivalent) /\ ops[Head(todo)].k = "call") =>
         /\ ops'[Head(todo)].live
         /\ ops'[Head(todo)].sym = GetHipName(ops[Head(todo)].sym)
         /\ Len(Symbols(ops', GetHipName(ops[Head(todo)].sym))) = 1
    /\ \A n \in HipEquivalent : Len(Symbols(ops', GetHipName(n))) <= 1
    /\ pc' = "done" =>
         \A c \in DOMAIN ops' :
           (ops'[c].live /\ ops'[c].k = "call") => ops'[c].sym \notin HipEquivalent

\* C17: the vendor-rename pass makes every high-level call of an
\* allow-listed name with a vendor equivalent a call of the translated name,
\* and the module holds exactly one declaration of a translated name however
\* many calls were rewritten, also when two names translate to one.
C17_Renamed == [][Renamed]_vars


RemovedWithWarning ==
  Visits("hip", InequivalentCudartSymbols) =>
    LET c == Head(todo)
    IN /\ Succeeds(c)
       /\ errs' = Append(errs, [warning |-> "Unsupported CUDART call",
                                callee |-> ops[c].sym])
       /\ NewOps(ops, ops', "func") = {} /\ NewOps(ops, ops', "llvmfunc") = {}
       /\ Symbols(ops', GetHipName(ops[c].sym)) = <<>>

\* C18: the vendor-rename pass, at a call of an allow-listed name that has
\* no vendor equivalent (cudaGetDeviceProperties), writes a warning that
\* names the callee, replaces the call's result by a success constant 0 of
\* its type, erases the call, and creates no declaration under the
\* translated name.
C18_RemovedWithWarning == [][RemovedWithWarning]_vars

C18_Witness ==
  /\ pc = "done" /\ Len(errs) = 2
  /\ \E c \in DOMAIN ops, z \in DOMAIN ops :
       /\ ~ops[c].live /\ ops[c].sym = "cudaGetDeviceProperties"
       /\ ops[z].live /\ ops[z].k = "cint" /\ ops[z].sym = "zero"
       /\ Readers(ops, Res(z, 0)) # {}
  /\ Symbols(ops, "hipGetDeviceProperties") = <<>>

----------------------------------------------------------------------------
(* Asynchronous dependencies.                                              *)

\* the pass is at launch toHandle[cur] and takes its step
AtLaunch == pc = "lower" /\ Idle /\ pc' # pc

\* one asynchronous region, around the loops, whose dependencies are new
\* tokens made for the launch's dependencies, one each, in their order
AsyncWrapped(l) ==
  LET deps == AsyncDeps(ops, l)
      regions == NewOps(ops, ops', "async")
  IN /\ pc' = "launch"
     /\ Cardinality(regions) = 1
     /\ \A a \in regions :
          /\ ops'[a].live /\ Inside(ops', a, OuterLoop)
          /\ Len(ops'[a].args) = Len(deps)
          /\ \A i \in 1..Len(deps) :
               /\ Created(ops'[a].args[i], "s2t")
               /\ IsStreamToken(ops, deps[i]) =>
                    ops'[ops'[a].args[i][2]].args = ops[deps[i][2]].args
               /\ \A j \in 1..Len(deps) : ops'[a].args[i] = ops'[a].args[j] => i = j
               /\ \A j \in 1..Len(deps) : i < j => ops'[a].args[i][2] < ops'[a].args[j][2]

AsyncIffDeps ==
  AtLaunch =>
    IF AsyncDeps(ops, toHandle[cur]) = <<>>
    THEN pc' = "launch" /\ NewOps(ops, ops', "async") = {}
    ELSE AsyncWrapped(toHandle[cur])

\* C26: the nest is wrapped in an asynchronous region iff the launch has an
\* asynchronous dependency, and then every dependency, whatever defines
\* it, is converted to one token that is a dependency of the region, in the
\* original order.
C26_AsyncIffDeps == [][AsyncIffDeps]_vars

\* the same for the launches the pass does not abort on: those whose
\* dependencies are all results of polygeist.stream2token
C26_OnlyStreamTokens ==
  [][(AtLaunch /\ ~LowerAborts(ops, toHandle[cur])) => AsyncIffDeps]_vars

----------------------------------------------------------------------------
(* Low-level calls under the vendor-rename policy.                         *)

\* the walk is at a low-level call of a name with an equivalent, and the
\* callee is declared as a low-level function
AtLowLevelCall ==
  /\ pc = "hip" /\ todo # <<>>
  /\ ops[Head(todo)].k = "lcall"
  /\ ops[Head(todo)].sym \in CudartSymbols \ InequivalentCudartSymbols
  /\ LookupKind(ops, ops[Head(todo)].sym, "llvmfunc") # 0

\* C27: the vendor-rename policy handles a low-level call as it handles a
\* high-level one: at a low-level call of an allow-listed name with an
\* equivalent whose callee is declared as a low-level function the pass
\* does not abort, the call is redirected to the translated name, and one
\* low-level declaration of that name exists, created if it was absent.
C27_LowLevelRenamed ==
  [][AtLowLevelCall =>
       LET c == Head(todo)
           hip == GetHipName(ops[c].sym)
       IN /\ pc' = "hip"
          /\ ops'[c].live /\ ops'[c].sym = hip
          /\ LookupKind(ops', hip, "llvmfunc") # 0
          /\ Len(Symbols(ops', hip)) = 1]_vars

----------------------------------------------------------------------------
(* One lock for both lookup-or-create sequences.                           *)

\* C28: the malloc and the free lookup-or-create sequences are guarded by
\* one and the same lock: in no interleaving is a thread inside callMalloc's
\* critical section while another thread is inside
\* GetOrCreateFreeFunction's, so no two threads are about to insert a
\* declaration at the start of the module body at the same time.
C28_OneLock ==
  /\ InMalloc = {} \/ InFree = {}
  /\ Cardinality({t \in Threads : threads[t].pc \in {"m_create", "f_create"}}) <= 1

----------------------------------------------------------------------------
(* Symbol names stay unique.                                               *)

\* C29: the names of the module's functions stay unique through every
\* synthesis of a declaration (malloc, free, the clone under the translated
\* name for a high-level and for a low-level call), also when the wanted
\* name is already declared as the other kind of function.
C29_UniqueNames == UniqueSymbols(ops)

----------------------------------------------------------------------------
(* The operands of a hoisted allocation.                                   *)

\* value v is defined outside loop t: it is neither the result of an
\* operation in the loop nor an argument of a block in the loop
DefinedOutside(ar, t, v) == v[2] # t /\ ~Inside(ar, t, v[2])

\* the allocations the step created at the start of the outer loop's body
HoistedAllocas == UNION {NewOps(ops, ops', k) : k \in AllocaKinds}

\* C30: hoisting a tagged allocation to the start of the block loop's body
\* keeps definition before use: every operand of the new allocation (the
\* array size of a low-level allocation, the dynamic sizes of a memref
\* allocation) is defined outside the inner thread loop.
C30_HoistedOperandsOutside ==
  [][LowerStep =>
       \A a \in HoistedAllocas :
         \A v \in SeqRange(ops'[a].args) : DefinedOutside(ops', InnerLoop, v)]_vars
=============================================================================
